---- MODULE Spec2Model ----
(***************************************************************************)
(* Model of the artefact-ai data-enrichment and semantic-retrieval         *)
(* pipeline:                                                               *)
(*   - backend/scripts/scrape-met-html-parallel.ts : the parallel          *)
(*     harvester (Semaphore, processArtwork, main)                         *)
(*   - backend/src/routes/artwork.ts : searchMET's rate limiter and the    *)
(*     POST /semantic-search handler                                       *)
(* Each subsystem has its own specification over the shared variables.     *)
(***************************************************************************)
EXTENDS Integers, Sequences, FiniteSets, TLC

(***************************************************************************)
(* Bounds of the model.                                                    *)
(***************************************************************************)
\* rows of the artwork table
NumItems == 3
\* scrape-met-html-parallel.ts:28 sets CONCURRENCY = 15; the model scales the
\* number of permits down so that a worklist of NumItems rows queues waiters.
CONCURRENCY == 2
\* successive harvester runs over the same table
MaxRuns == 2

Items == 1..NumItems

(***************************************************************************)
(* Values of a column.  NULL is SQL NULL / JS null; "old" is a value the   *)
(* import left in the table, "new" the value the external page offers.     *)
(***************************************************************************)
NULL == "NULL"

\* JS truthiness of a string-or-null value: null and '' are falsy.
Truthy(v) == v # NULL /\ v # ""

\* The columns of the artwork table the harvester reads or writes.
Fields == {"primary_image", "primary_image_small", "description", "artist",
           "date", "culture", "department", "credit_line", "classification",
           "artist_display_bio"}

Row(img, desc, artist, date) ==
    [primary_image |-> img, primary_image_small |-> NULL, description |-> desc,
     artist |-> artist, date |-> date, culture |-> NULL, department |-> "old",
     credit_line |-> NULL, classification |-> NULL, artist_display_bio |-> NULL]

Page(nf, img, desc, artist, date) ==
    [notFound |-> nf, og_image |-> img, desc |-> desc, artist |-> artist,
     date |-> date, culture |-> NULL]

\* The inputs of a harvester run: for each item, the row the out-of-band
\* import left in the table and what the item's external page contains, as
\* far as the extraction patterns of extractMetadata can see it.
Scenarios ==
    << \* nothing enriched yet, the page offers everything
      [row |-> Row(NULL, NULL, NULL, NULL),
       page |-> Page(FALSE, "new", "new", "new", "new")],
      \* only the image is missing; the page has no image but offers another
      \* description, artist and date
      [row |-> Row(NULL, "old", "old", "old"),
       page |-> Page(FALSE, NULL, "new", "new", "new")],
      \* nothing extractable on the page
      [row |-> Row(NULL, NULL, NULL, NULL),
       page |-> Page(FALSE, NULL, NULL, NULL, NULL)],
      \* a "Page Not Found" body served with status 200
      [row |-> Row("old", NULL, "old", "old"),
       page |-> Page(TRUE, NULL, NULL, NULL, NULL)] >>

VARIABLES
    table,        \* artwork table: Items -> row
    pages,        \* external documents: Items -> page (fixed during a behaviour)
    DRY_RUN,      \* --dry-run given
    run,          \* number of the current harvester run
    mainPc,       \* main(): "select", "map", "await", "done"
    worklist,     \* artworksToScrape: sequence of selected snapshots
    spawned,      \* how many worklist entries map() has called processArtwork on
    pc,           \* Items -> position of the item's processArtwork task
    permits,      \* Semaphore.permits
    waiting,      \* Semaphore.waiting: queue of blocked tasks
    stats,        \* the stats object of main()
    updateData,   \* Items -> the updateData of an in-flight db.update
    tableAtStart, \* the table as it was when the current run selected its worklist
    dbWrites,     \* db.update calls issued in the current run
    DATABASE_URL, \* is process.env.DATABASE_URL set
    LIMIT,        \* the value of --limit, when the flag is given
    exitCode,     \* "none" while the process has not ended, else "0" or "1"
    released,     \* Items -> calls of semaphore.release() by the item's task
    fate,         \* Items -> what the item's fetch, body read and update do,
                  \* where a specification fixes it
    dryStats      \* the stats a preceding --dry-run run ended with

harvestVars == <<table, pages, DRY_RUN, run, mainPc, worklist, spawned, pc,
                 permits, waiting, stats, updateData, tableAtStart, dbWrites,
                 DATABASE_URL, LIMIT, exitCode, released, fate, dryStats>>

\* what an invocation is given, and what an earlier invocation left
givenVars == <<DATABASE_URL, LIMIT, fate, dryStats>>

\* routes/artwork.ts, searchMET
VARIABLES
    now,            \* Date.now(), in ms
    lastMETApiCall, \* the module-level timestamp of the rate limiter
    caller,         \* Callers -> position of the caller's searchMET invocation
    wakeAt,         \* Callers -> when the caller's pending setTimeout is due
    callStarts      \* start times of the calls sent to the MET search endpoint

metVars == <<now, lastMETApiCall, caller, wakeAt, callStarts>>

\* routes/artwork.ts, POST /semantic-search
VARIABLES
    embedding,      \* artwork.embedding: StoreIds -> a vector, or NoVector
    storedDims,     \* the dimensionality of the stored vectors
    semPc,          \* position of the handler: "idle", "generate", "embed",
                    \* "json", "rank"
    body,           \* req.body of the request being served
    processedQuery, \* the trimmed text of the query-processing call
    queryEmbedding, \* embeddingData.data[0].embedding
    responses       \* the responses sent so far, oldest first

semVars == <<embedding, storedDims, semPc, body, processedQuery,
             queryEmbedding, responses>>

routeVars == <<metVars, semVars>>

\* The embedding batch generator
VARIABLES
    genTable,       \* per row: has it an embedding_summary, has it an embedding
    providerUp,     \* per row: does the embedding provider answer its request
    genPc,          \* "select", "request", "done", "stopped"
    genRun,         \* 1 for the first invocation, 2 for the restart
    genWorklist,    \* the rows selected by this invocation, in order
    genNext,        \* index in genWorklist of the row being processed
    attempt,        \* provider calls already made for that row
    repeatedCalls,  \* provider calls of this invocation for a row that
                    \* already had its embedding
    genTableAtStart, \* genTable before the first invocation
    calls           \* per invocation and row: provider calls made for it

genVars == <<genTable, providerUp, genPc, genRun, genWorklist, genNext,
             attempt, repeatedCalls, genTableAtStart, calls>>

\* extractMetadata on its own
VARIABLES
    pageHtml,       \* the html argument, by what each pattern finds in it
    data            \* the record extractMetadata returns

extractVars == <<pageHtml, data>>

\* controllers/vaultController.ts
VARIABLES
    artworkRows,    \* the object_ids that have a row in the artwork table
    userFavorites,  \* user_favorites: per (user, artwork), the number of rows
    toggles         \* per toggleFavorite call: its position and its locals

vaultVars == <<artworkRows, userFavorites, toggles>>

offlineVars == <<genVars, extractVars, vaultVars>>

vars == <<harvestVars, routeVars, offlineVars>>

(***************************************************************************)
(* Semaphore (scrape-met-html-parallel.ts:34-61).                          *)
(***************************************************************************)
\* acquire(): take a permit when one is free, otherwise queue the caller.
\* The result is the semaphore after the call and whether the caller's
\* promise is already resolved.
acquire_offByOne(p, w, i) ==
    IF p >= 0
    THEN [permits |-> p - 1, waiting |-> w, resolved |-> TRUE]
    ELSE [permits |-> p, waiting |-> Append(w, i), resolved |-> FALSE]

acquire(p, w, i) ==
    IF p > 0
    THEN [permits |-> p - 1, waiting |-> w, resolved |-> TRUE]
    ELSE [permits |-> p, waiting |-> Append(w, i), resolved |-> FALSE]

\* release(): permits++, and when a waiter exists shift it off the queue,
\* permits-- again and call its resolve.  woken is the set of tasks whose
\* acquire() promise this call resolves.
release_noDecrement(p, w) ==
    IF Len(w) > 0
    THEN [permits |-> p + 1, waiting |-> Tail(w), woken |-> {Head(w)}]
    ELSE [permits |-> p + 1, waiting |-> w, woken |-> {}]

release_noHandoff(p, w) ==
    [permits |-> p + 1, waiting |-> w, woken |-> {}]

release(p, w) ==
    IF Len(w) > 0
    THEN [permits |-> (p + 1) - 1, waiting |-> Tail(w), woken |-> {Head(w)}]
    ELSE [permits |-> p + 1, waiting |-> w, woken |-> {}]

(***************************************************************************)
(* extractMetadata (scrape-met-html-parallel.ts:66-219).  The page is      *)
(* given by what each extraction pattern finds in it; medium, department,  *)
(* credit_line, classification and artist_bio are initialised to null and  *)
(* never assigned.                                                         *)
(***************************************************************************)
extractMetadata(html, objectId) ==
    [object_id |-> objectId,
     iiif_image_url |-> html.og_image,
     description |-> html.desc,
     artist |-> html.artist,
     date |-> html.date,
     culture |-> html.culture,
     medium |-> NULL,
     department |-> NULL,
     credit_line |-> NULL,
     classification |-> NULL,
     artist_bio |-> NULL]

(***************************************************************************)
(* extractMetadata in detail (lines 104-212): what each source in the page *)
(* offers for description, artist, date and culture, and which of it is    *)
(* kept.  A text is given by its length after cleaning and trimming and by *)
(* the kind of noise marker it contains.                                   *)
(***************************************************************************)
\* description.length > 30 && description.length < 3000
DESCRIPTION_MIN == 30
DESCRIPTION_MAX == 3000
\* text.length > 2 && text.length < 200
METADATA_MIN == 2
METADATA_MAX == 200

Text(len, marker) == [len |-> len, marker |-> marker]

\* null: the pattern did not match, or the property is missing
NullText == [len |-> 0, marker |-> "null"]

\* markers only the description check rejects ('arrow keys', 'navigate',
\* 'tabs below'), markers both checks reject ('{', '}', 'function', ...)
\* and markers only isValidMetadata rejects ('http', '//', '.css', ...)
DescriptionNoise == {"navigate", "{"}
MetadataNoise == {"{", "http"}

Texts ==
    { Text(0, "none"), Text(METADATA_MIN, "none"), Text(METADATA_MIN + 1, "none"),
      Text(DESCRIPTION_MIN, "none"), Text(DESCRIPTION_MIN + 1, "none"),
      Text(DESCRIPTION_MIN + 1, "navigate"), Text(DESCRIPTION_MIN + 1, "{"),
      Text(DESCRIPTION_MIN + 1, "http"),
      Text(METADATA_MAX, "none"), Text(DESCRIPTION_MAX, "none") }

Candidates == Texts \cup {NullText}

\* a JavaScript string that is neither null nor ""
truthyText(text) == text # NullText /\ text.len > 0

\* lines 123-135: the check on the text of the description div
isValidDescription(description) ==
    /\ truthyText(description)
    /\ description.len > DESCRIPTION_MIN
    /\ description.len < DESCRIPTION_MAX
    /\ description.marker \notin DescriptionNoise

\* lines 160-191
isValidMetadata(text) ==
    /\ truthyText(text)
    /\ text.len > METADATA_MIN
    /\ text.len < METADATA_MAX
    /\ text.marker \notin MetadataNoise

\* the date of a page with no "Date...:" label, matched by the year pattern
YearText == Text(4, "none")

\* The page: the text of the description div, the JSON-LD script (parsed
\* is FALSE when the script is absent or JSON.parse throws), and the texts
\* after the first "Artist...:", "Date...:" and "Culture...:".
Html(descDiv, parsed, ldDescription, ldCreatorName, artist, date, year, culture) ==
    [descDiv |-> descDiv,
     jsonLd |-> [parsed |-> parsed, description |-> ldDescription,
                 creatorName |-> ldCreatorName],
     artistLabel |-> artist, dateLabel |-> date, hasYear |-> year,
     cultureLabel |-> culture]

NoData ==
    [returned |-> FALSE, description |-> NullText, artist |-> NullText,
     date |-> NullText, culture |-> NullText]

extractMetadataFrom(html) ==
    LET \* lines 105-137
        fromDiv == IF isValidDescription(html.descDiv)
                   THEN html.descDiv ELSE NullText
        \* line 152: data.description = data.description || jsonData.description
        description ==
            IF html.jsonLd.parsed /\ truthyText(html.jsonLd.description)
            THEN (IF truthyText(fromDiv) THEN fromDiv
                  ELSE html.jsonLd.description)
            ELSE fromDiv
        \* line 153: data.artist = jsonData.creator.name
        fromLd == IF html.jsonLd.parsed /\ truthyText(html.jsonLd.creatorName)
                  THEN html.jsonLd.creatorName ELSE NullText
        \* lines 194-197
        artist == IF html.artistLabel # NullText /\ isValidMetadata(html.artistLabel)
                  THEN html.artistLabel ELSE fromLd
        \* lines 200-204: the year pattern is tried only when no label matches
        dateMatch == IF html.dateLabel # NullText THEN html.dateLabel
                     ELSE IF html.hasYear THEN YearText ELSE NullText
        date == IF dateMatch # NullText /\ isValidMetadata(dateMatch)
                THEN dateMatch ELSE NullText
        \* lines 209-212
        culture == IF html.cultureLabel # NullText /\ isValidMetadata(html.cultureLabel)
                   THEN html.cultureLabel ELSE NullText
    IN [returned |-> TRUE, description |-> description, artist |-> artist,
        date |-> date, culture |-> culture]

\* extractMetadata is not being called.
ExtractIdle ==
    /\ pageHtml = Html(NullText, FALSE, NullText, NullText, NullText, NullText,
                       FALSE, NullText)
    /\ data = NoData

(***************************************************************************)
(* The vault: toggleFavorite and isFavorited                               *)
(* (controllers/vaultController.ts:5-80).                                  *)
(***************************************************************************)
\* toggleFavorite calls of one behaviour
NumToggles == 3
\* the most rows of one (user, artwork) pair a table starts with
MaxRows == 2

\* the users and the object_ids a request can name
VaultUsers == {1, 2}
VaultObjects == {1, 2}
ToggleCalls == 1..NumToggles
Pairs == VaultUsers \X VaultObjects

NoFavorites == [p \in Pairs |-> 0]

\* a call that has not been made
NoToggle ==
    [pc |-> "idle", userId |-> 0, objectId |-> 0, existing |-> FALSE,
     isFavorited |-> "none", before |-> NoFavorites, after |-> NoFavorites]

\* No request to the vault.
VaultIdle ==
    /\ artworkRows = {}
    /\ userFavorites = NoFavorites
    /\ toggles = [c \in ToggleCalls |-> NoToggle]

\* isFavorited (lines 53-80): false without an artwork row, else whether the
\* select on user_favorites returns a row
isFavorited(rows, userId, objectId) ==
    IF objectId \notin artworkRows THEN FALSE
    ELSE rows[<<userId, objectId>>] > 0

\* the artworks a user's favorites rows point to
FavoritesOf(rows, userId) ==
    {o \in VaultObjects : rows[<<userId, o>>] > 0}

\* line 270: the body is classified as a not-found page.
isNotFound_never(html) == FALSE

isNotFound(html) == html.notFound

\* The selection of main() (lines 366-385): rows with a null image,
\* description or artist, highest object_id first, each as the snapshot the
\* query selects.
NeedsEnhancement_withDate(row) ==
    \/ row.primary_image = NULL
    \/ row.description = NULL
    \/ row.artist = NULL
    \/ row.date = NULL

NeedsEnhancement(row) ==
    row.primary_image = NULL \/ row.description = NULL \/ row.artist = NULL

Snapshot(i, row) ==
    [object_id |-> i,
     current_primary_image |-> row.primary_image,
     current_description |-> row.description,
     current_artist |-> row.artist]

\* a selection that returns a row once for each of two joined rows
RECURSIVE SelectFrom_repeating(_, _)
SelectFrom_repeating(tbl, i) ==
    IF i = 0 THEN <<>>
    ELSE (IF NeedsEnhancement(tbl[i])
          THEN <<Snapshot(i, tbl[i]), Snapshot(i, tbl[i])>> ELSE <<>>)
         \o SelectFrom_repeating(tbl, i - 1)

RECURSIVE SelectFrom(_, _)
SelectFrom(tbl, i) ==
    IF i = 0 THEN <<>>
    ELSE (IF NeedsEnhancement(tbl[i]) THEN <<Snapshot(i, tbl[i])>> ELSE <<>>)
         \o SelectFrom(tbl, i - 1)

artworksToScrape(tbl) == SelectFrom(tbl, NumItems)

\* --limit: LIMIT is parseInt of the argument that follows the flag, null
\* without the flag (line 29).
NoLimit == [given |-> FALSE, n |-> 0]

LimitOf(n) == [given |-> TRUE, n |-> n]

\* LIMIT ? baseQuery.limit(LIMIT) : baseQuery (line 385): null and 0 are
\* falsy.
limited(rows, limit) ==
    IF limit.given /\ limit.n # 0
    THEN SubSeq(rows, 1, IF limit.n < Len(rows) THEN limit.n ELSE Len(rows))
    ELSE rows

\* The outcomes of an item's fetch, body read and update are left open.
NoFate == [i \in Items |-> [fetch |-> "any", text |-> "any", update |-> "any"]]

WorkItems == {worklist[k].object_id : k \in 1..Len(worklist)}

artworkItem(i) ==
    worklist[CHOOSE k \in 1..Len(worklist) : worklist[k].object_id = i]

\* lines 280-282
foundImage(metadata, item) ==
    Truthy(metadata.iiif_image_url) /\ ~Truthy(item.current_primary_image)

foundDescription(metadata, item) ==
    Truthy(metadata.description) /\ ~Truthy(item.current_description)

foundEnhancedData(metadata) ==
    Truthy(metadata.artist) \/ Truthy(metadata.date) \/ Truthy(metadata.culture)

\* lines 300-320: the updateData object; a key that is not set is NULL here.
Keep(v) == IF Truthy(v) THEN v ELSE NULL

buildUpdateData(metadata, item) ==
    [primary_image |->
        IF Truthy(metadata.iiif_image_url) /\ ~Truthy(item.current_primary_image)
        THEN metadata.iiif_image_url ELSE NULL,
     primary_image_small |-> NULL,
     artist |-> Keep(metadata.artist),
     date |-> Keep(metadata.date),
     culture |-> Keep(metadata.culture),
     department |-> Keep(metadata.department),
     credit_line |-> Keep(metadata.credit_line),
     classification |-> Keep(metadata.classification),
     artist_display_bio |-> Keep(metadata.artist_bio),
     description |->
        IF Truthy(metadata.description) /\ ~Truthy(item.current_description)
        THEN metadata.description ELSE NULL]

\* Object.keys(updateData).length
KeyCount(upd) == Cardinality({f \in Fields : upd[f] # NULL})

\* db.update(artwork).set(updateData).where(object_id = ...): the row after it
setRow(row, upd) == [f \in Fields |-> IF upd[f] # NULL THEN upd[f] ELSE row[f]]

NoUpdate == [f \in Fields |-> NULL]

\* db.update(artwork).set(updateData).where(eq(artwork.object_id, ...))
applyUpdate_noWhere(tbl, i, upd) == [j \in Items |-> setRow(tbl[j], upd)]

applyUpdate(tbl, i, upd) == [tbl EXCEPT ![i] = setRow(@, upd)]

\* if (!DRY_RUN) { ... if (Object.keys(updateData).length > 0) await db.update
writesUpdate_ignoringDryRun(dryRun, upd) == KeyCount(upd) > 0

writesUpdate(dryRun, upd) == ~dryRun /\ KeyCount(upd) > 0

ZeroStats == [processed |-> 0, updated |-> 0, skipped |-> 0, errors |-> 0,
              newImages |-> 0, newDescriptions |-> 0]

Bump(s, k) == [s EXCEPT ![k] = @ + 1]

(***************************************************************************)
(* searchMET's rate limiter (routes/artwork.ts:34-126).                    *)
(***************************************************************************)
MET_API_DELAY == 2000
\* the pause after a 403/429 answer (line 73) and after a bot-protection
\* page (line 88)
RATE_LIMITED_WAIT == 10000
BOT_PROTECTION_WAIT == 30000

\* concurrent requests that reach searchMET
NumCallers == 2
\* calls sent to the MET endpoint in one behaviour
MaxCalls == 3
\* granularity of the clock, in ms, and how long the clock runs
TickMs == 1000
MaxTime == 12000

Callers == 1..NumCallers

\* The limiter before any request: lastMETApiCall = 0 (line 35) and a clock
\* far beyond MET_API_DELAY, as Date.now() is.
METIdle ==
    /\ now = MET_API_DELAY
    /\ lastMETApiCall = 0
    /\ caller = [c \in Callers |-> "idle"]
    /\ wakeAt = [c \in Callers |-> 0]
    /\ callStarts = <<>>

\* lines 49-60: record the time of the call and send the request
sendCall(c) ==
    /\ lastMETApiCall' = now
    /\ callStarts' = Append(callStarts, now)
    /\ caller' = [caller EXCEPT ![c] = "fetch"]

\* lines 38-60: a request enters searchMET; the code up to the first await.
Enter(c) ==
    /\ UNCHANGED <<harvestVars, semVars, offlineVars>>
    /\ caller[c] = "idle"
    /\ Len(callStarts) + Cardinality({d \in Callers : caller[d] = "waiting"})
          < MaxCalls
    /\ LET timeSinceLastCall == now - lastMETApiCall
           waitTime == MET_API_DELAY - timeSinceLastCall
       IN IF timeSinceLastCall < MET_API_DELAY
          THEN /\ caller' = [caller EXCEPT ![c] = "waiting"]
               /\ wakeAt' = [wakeAt EXCEPT ![c] = now + waitTime]
               /\ UNCHANGED <<lastMETApiCall, callStarts>>
          ELSE /\ sendCall(c)
               /\ UNCHANGED wakeAt
    /\ UNCHANGED now

\* lines 47-60: the rate-limiting timer fires; the call is sent.
WaitDone(c) ==
    /\ UNCHANGED <<harvestVars, semVars, offlineVars>>
    /\ caller[c] = "waiting"
    /\ now >= wakeAt[c]
    /\ sendCall(c)
    /\ wakeAt' = [wakeAt EXCEPT ![c] = 0]
    /\ UNCHANGED now

\* lines 60-125: the MET endpoint answers.  A 403/429 and a bot-protection
\* page make the caller pause before it returns empty results; every other
\* answer (a result list, another error, a rejected fetch) returns at once.
Answers == {"json", "rate_limited", "bot_page", "other_error"}

FetchAnswer(c, answer) ==
    /\ UNCHANGED <<harvestVars, semVars, offlineVars>>
    /\ caller[c] = "fetch"
    /\ CASE answer = "rate_limited" ->
              /\ caller' = [caller EXCEPT ![c] = "penalty"]
              /\ wakeAt' = [wakeAt EXCEPT ![c] = now + RATE_LIMITED_WAIT]
         [] answer = "bot_page" ->
              /\ caller' = [caller EXCEPT ![c] = "penalty"]
              /\ wakeAt' = [wakeAt EXCEPT ![c] = now + BOT_PROTECTION_WAIT]
         [] OTHER ->
              /\ caller' = [caller EXCEPT ![c] = "idle"]
              /\ UNCHANGED wakeAt
    /\ UNCHANGED <<now, lastMETApiCall, callStarts>>

\* lines 73-76, 88-91 and 116-124: the pause is over, the error is thrown,
\* caught, and searchMET returns empty results.
PenaltyDone(c) ==
    /\ UNCHANGED <<harvestVars, semVars, offlineVars>>
    /\ caller[c] = "penalty"
    /\ now >= wakeAt[c]
    /\ caller' = [caller EXCEPT ![c] = "idle"]
    /\ wakeAt' = [wakeAt EXCEPT ![c] = 0]
    /\ UNCHANGED <<now, lastMETApiCall, callStarts>>

\* Time passes: by one tick, or up to the next pending timer.
Deadlines == {wakeAt[c] : c \in {d \in Callers : caller[d] \in {"waiting", "penalty"}}}

Tick ==
    /\ UNCHANGED <<harvestVars, semVars, offlineVars>>
    /\ \E t \in {now + TickMs} \cup {d \in Deadlines : d > now} :
          /\ t <= MaxTime
          /\ now' = t
    /\ UNCHANGED <<lastMETApiCall, caller, wakeAt, callStarts>>

METNext ==
    \/ \E c \in Callers : Enter(c)
    \/ \E c \in Callers : WaitDone(c)
    \/ \E c \in Callers, a \in Answers : FetchAnswer(c, a)
    \/ \E c \in Callers : PenaltyDone(c)
    \/ Tick

(***************************************************************************)
(* The embedding batch generator.  The selection is the documented query   *)
(* (README_PHASE1C.md, "Query Logic"); the per-row processing follows the  *)
(* generator's state machine: request, retry, write or give up.            *)
(***************************************************************************)
\* "Up to 3 retries per failed request"
MAX_RETRIES == 3

\* the attempts made for a row are used up
exhausted_oneLate(made) == made > MAX_RETRIES

exhausted(made) == made >= MAX_RETRIES

\* a row's embedding columns: each is set (TRUE) or NULL (FALSE);
\* processed_at is the "Processing timestamp" of a processed artwork
GenRow(summary, emb) ==
    [embedding_summary |-> summary, embedding |-> emb, processed_at |-> emb]

\* the write of a successful request: embedding and processed_at in one
\* UPDATE of the row
writeEmbedding_noTimestamp(row) == [row EXCEPT !.embedding = TRUE]

writeEmbedding(row) == [row EXCEPT !.embedding = TRUE, !.processed_at = TRUE]

\* WHERE embedding_summary IS NOT NULL AND embedding_summary != ''
\*   AND embedding IS NULL
NeedsEmbedding_anyRow(row) == row.embedding_summary

NeedsEmbedding(row) == row.embedding_summary /\ ~row.embedding

\* ORDER BY object_id
RECURSIVE GenSelectFrom(_, _)
GenSelectFrom(tbl, i) ==
    IF i > NumItems THEN <<>>
    ELSE IF NeedsEmbedding(tbl[i]) THEN <<i>> \o GenSelectFrom(tbl, i + 1)
    ELSE GenSelectFrom(tbl, i + 1)

\* No generator run.
GenIdle ==
    /\ genTable = [i \in Items |-> GenRow(FALSE, FALSE)]
    /\ providerUp = [i \in Items |-> TRUE]
    /\ genPc = "select"
    /\ genRun = 1
    /\ genWorklist = <<>>
    /\ genNext = 1
    /\ attempt = 0
    /\ repeatedCalls = 0
    /\ genTableAtStart = genTable
    /\ calls = [r \in 1..2 |-> [i \in Items |-> 0]]

(***************************************************************************)
(* POST /semantic-search (routes/artwork.ts:228-369).                      *)
(***************************************************************************)
\* const { query, limit = 20 } = req.body (line 230) and Math.min(limit, 50)
\* (line 314)
DEFAULT_LIMIT == 20
MAX_RESULTS == 50
\* dimensions requested for the query embedding (line 275)
QUERY_DIMENSIONS == 3072
\* dimensions of the stored vectors as the embedding generator writes them
\* (README_PHASE1C.md, "Embedding Generation")
STORED_DIMENSIONS == 1536

\* rows of the artwork table seen by the search
StoreSize == 52
StoreIds == 1..StoreSize

\* Vectors are given by two integer components whose norm is an integer, so
\* that cosine similarities are exact fractions; the declared dimensionality
\* of a vector is kept apart (storedDims, QUERY_DIMENSIONS).
NoVector == <<>>

VectorList == << <<1, 0>>, <<0, 1>>, <<3, 4>>, <<-1, 0>>, <<4, 3>>, <<-3, -4>> >>

QueryVectors == { <<1, 0>>, <<3, 4>> }

\* The vector the embedding generator stored for row i.
VectorOf(i) == VectorList[((i - 1) % Len(VectorList)) + 1]

\* Which rows have an embedding: none, all, or all but every third row.
EmbeddedSets == { {}, StoreIds, {i \in StoreIds : i % 3 # 0} }

Dot(a, b) == a[1] * b[1] + a[2] * b[2]

Abs(n) == IF n < 0 THEN -n ELSE n

Norm(a) == CHOOSE n \in 0..(Abs(a[1]) + Abs(a[2])) : n * n = Dot(a, a)

\* pgvector's a <=> b is 1 - cos(a, b); line 309 reports 1 - (a <=> b), the
\* cosine itself, here as the fraction num / den with den > 0.  The
\* distance of a NULL embedding is NULL, and so is its similarity.
NullScore == [num |-> 0, den |-> 0]

\* embedding <=> query: the cosine distance, 1 - cos(a, b)
distance(a, b) ==
    IF a = NoVector \/ b = NoVector THEN NullScore
    ELSE [num |-> Norm(a) * Norm(b) - Dot(a, b), den |-> Norm(a) * Norm(b)]

\* 1 - (embedding <=> query)
similarity_asDistance(a, b) == distance(a, b)

similarity(a, b) ==
    LET d == distance(a, b)
    IN IF d = NullScore THEN NullScore
       ELSE [num |-> d.den - d.num, den |-> d.den]

\* s is a larger similarity (a smaller distance) than t
Closer(s, t) == s.num * t.den > t.num * s.den

SameScore(s, t) == s.num * t.den = t.num * s.den

\* ORDER BY embedding <=> query (line 313) fixes the order of two rows only
\* when their distances differ.  Rows at the same distance come out in the
\* order the executor happens to produce them: here by ascending or by
\* descending object_id.  An ascending ORDER BY puts NULL distances last.
ScanOrders == {"asc", "desc"}

Before(x, y, q, order) ==
    LET dx == distance(embedding[x], q)
        dy == distance(embedding[y], q)
        scanned == IF order = "asc" THEN x < y ELSE x > y
    IN IF dx = NullScore \/ dy = NullScore
       THEN \/ dx # NullScore
            \/ dx = dy /\ scanned
       ELSE \/ dx.num * dy.den < dy.num * dx.den
            \/ dx.num * dy.den = dy.num * dx.den /\ scanned

\* WHERE embedding IS NOT NULL (line 312)
Embedded_allRows == StoreIds

Embedded == {i \in StoreIds : embedding[i] # NoVector}

\* The place of every row in the order of the query, before LIMIT: a row
\* comes after the rows that sort before it.
Positions(q, order) ==
    { <<Cardinality({y \in Embedded : Before(y, x, q, order)}) + 1, x>> :
         x \in Embedded }

InOrder(positions) ==
    [k \in 1..Cardinality(positions) |-> (CHOOSE p \in positions : p[1] = k)[2]]

Ranked(q, order) == InOrder(Positions(q, order))

Min(a, b) == IF a < b THEN a ELSE b

\* limit = 20 when the body has none
requestedLimit(b) == IF b.hasLimit THEN b.limit ELSE DEFAULT_LIMIT

\* .limit(Math.min(limit, 50))
resultLimit_uncapped(limit) == limit

resultLimit(limit) == Min(limit, MAX_RESULTS)

\* LIMIT n over the ordered rows
firstRows(all, n) == SubSeq(all, 1, Min(n, Len(all)))

\* lines 293-314: the rows the query returns, each with its similarity.
similarArtworks(q, limit, order) ==
    LET rows == firstRows(Ranked(q, order), resultLimit(limit))
    IN [k \in 1..Len(rows) |->
          [object_id |-> rows[k],
           similarity |-> similarity(embedding[rows[k]], q)]]

\* Request bodies.  query is a string, is missing, or is not a string;
\* limit is a non-negative integer or is missing.
RawQuery == "show me something mexican"

Queries == { [kind |-> "string", text |-> RawQuery],
             [kind |-> "string", text |-> ""],
             [kind |-> "missing", text |-> ""],
             [kind |-> "number", text |-> ""] }

Limits == {0, 3, MAX_RESULTS + 1}

Bodies ==
    { [query |-> qr, hasLimit |-> TRUE, limit |-> l] : qr \in Queries, l \in Limits }
    \cup { [query |-> qr, hasLimit |-> FALSE, limit |-> 0] : qr \in Queries }

\* !query || typeof query !== 'string' (line 232)
invalidQuery(qr) == qr.kind # "string" \/ qr.text = ""

\* What the text-generation call can answer, and String.prototype.trim on it.
GeneratedTexts == {"mexican art mural folk", " mexican art mural folk\n"}

trim(t) == IF t = " mexican art mural folk\n" THEN "mexican art mural folk" ELSE t

NoBody == [query |-> [kind |-> "missing", text |-> ""], hasLimit |-> FALSE, limit |-> 0]

\* No search request has been served.
SemIdle ==
    /\ embedding = [i \in StoreIds |-> NoVector]
    /\ storedDims = STORED_DIMENSIONS
    /\ semPc = "idle"
    /\ body = NoBody
    /\ processedQuery = ""
    /\ queryEmbedding = NoVector
    /\ responses = <<>>

(***************************************************************************)
(* The harvester: main() and one processArtwork task per selected row.     *)
(***************************************************************************)
HarvestInit ==
    /\ \E sc \in [Items -> DOMAIN Scenarios] :
          \* one table for each choice of how many rows are of each kind
          /\ \A i, j \in Items : i < j => sc[i] <= sc[j]
          /\ table = [i \in Items |-> Scenarios[sc[i]].row]
          /\ pages = [i \in Items |-> Scenarios[sc[i]].page]
    /\ DRY_RUN \in BOOLEAN
    /\ DATABASE_URL \in BOOLEAN
    /\ LIMIT = NoLimit
    /\ exitCode = "none"
    /\ released = [i \in Items |-> 0]
    /\ fate = NoFate
    /\ dryStats = ZeroStats
    /\ run = 1
    /\ mainPc = "start"
    /\ worklist = <<>>
    /\ spawned = 0
    /\ pc = [i \in Items |-> "idle"]
    /\ permits = CONCURRENCY
    /\ waiting = <<>>
    /\ stats = ZeroStats
    /\ updateData = [i \in Items |-> NoUpdate]
    /\ tableAtStart = table
    /\ dbWrites = 0

\* Lines 17-29: the script's top level.  Without DATABASE_URL the process
\* exits with status 1; otherwise the flags are read and main() is called.
Startup_noCheck ==
    /\ UNCHANGED <<routeVars, offlineVars, givenVars, released>>
    /\ mainPc = "start"
    /\ mainPc' = "select"
    /\ UNCHANGED exitCode
    /\ UNCHANGED <<table, pages, DRY_RUN, run, worklist, spawned, pc, permits,
                   waiting, stats, updateData, tableAtStart, dbWrites>>

Startup ==
    /\ UNCHANGED <<routeVars, offlineVars, givenVars, released>>
    /\ mainPc = "start"
    /\ IF DATABASE_URL
       THEN /\ mainPc' = "select"
            /\ UNCHANGED exitCode
       ELSE /\ mainPc' = "exited"
            /\ exitCode' = "1"
    /\ UNCHANGED <<table, pages, DRY_RUN, run, worklist, spawned, pc, permits,
                   waiting, stats, updateData, tableAtStart, dbWrites>>

\* main(), lines 366-413: select the worklist, zero the stats, new Semaphore.
Select ==
    /\ UNCHANGED <<routeVars, offlineVars, givenVars, exitCode>>
    /\ mainPc = "select"
    /\ worklist' = limited(artworksToScrape(table), LIMIT)
    /\ stats' = ZeroStats
    /\ permits' = CONCURRENCY
    /\ waiting' = <<>>
    /\ spawned' = 0
    /\ pc' = [i \in Items |-> "idle"]
    /\ tableAtStart' = table
    /\ dbWrites' = 0
    /\ released' = [i \in Items |-> 0]
    /\ mainPc' = "map"
    /\ UNCHANGED <<table, pages, DRY_RUN, run, updateData>>

\* main(), lines 416-418: map() calls processArtwork on the next entry, which
\* runs synchronously up to its await of semaphore.acquire() (line 239).
Spawn ==
    /\ UNCHANGED <<routeVars, offlineVars, givenVars, exitCode, released>>
    /\ mainPc = "map"
    /\ spawned < Len(worklist)
    /\ LET i == worklist[spawned + 1].object_id
           a == acquire(permits, waiting, i)
       IN /\ permits' = a.permits
          /\ waiting' = a.waiting
          /\ pc' = [pc EXCEPT ![i] = IF a.resolved THEN "acquired" ELSE "waiting"]
    /\ spawned' = spawned + 1
    /\ UNCHANGED <<table, pages, DRY_RUN, run, mainPc, worklist, stats,
                   updateData, tableAtStart, dbWrites>>

\* main(), line 431: the map is over, main awaits Promise.all.
AwaitAll ==
    /\ UNCHANGED <<routeVars, offlineVars, givenVars, exitCode, released>>
    /\ mainPc = "map"
    /\ spawned = Len(worklist)
    /\ mainPc' = "await"
    /\ UNCHANGED <<table, pages, DRY_RUN, run, worklist, spawned, pc, permits,
                   waiting, stats, updateData, tableAtStart, dbWrites>>

\* The finally block (line 344) of task i, with the stats as the task leaves
\* them: release the permit, which may resolve the acquire() of a waiter.
Finish_withoutRelease(i, newStats) ==
    /\ pc' = [pc EXCEPT ![i] = "done"]
    /\ stats' = newStats
    /\ UNCHANGED <<permits, waiting, released>>

Finish(i, newStats) ==
    LET r == release(permits, waiting)
    IN /\ permits' = r.permits
       /\ waiting' = r.waiting
       /\ pc' = [j \in Items |->
                   IF j = i THEN "done"
                   ELSE IF j \in r.woken THEN "acquired" ELSE pc[j]]
       /\ stats' = newStats
       /\ released' = [released EXCEPT ![i] = @ + 1]

\* A resolved acquire() schedules its continuation as a microtask; the event
\* loop runs every pending microtask before the callback of any timer, fetch
\* or database call.
MicrotasksDone == \A j \in Items : pc[j] # "acquired"

\* lines 242-252: the continuation after acquire(): count, start the fetch.
StartFetch(i) ==
    /\ UNCHANGED <<routeVars, offlineVars, givenVars, exitCode, released>>
    /\ mainPc = "await"
    /\ pc[i] = "acquired"
    /\ stats' = Bump(stats, "processed")
    /\ pc' = [pc EXCEPT ![i] = "fetch"]
    /\ UNCHANGED <<table, pages, DRY_RUN, run, mainPc, worklist, spawned,
                   permits, waiting, updateData, tableAtStart, dbWrites>>

\* lines 248-265 and 340-345: the fetch settles.
FetchOutcomes == {"ok", "blocked", "httperr", "reject"}

FetchDone(i, outcome) ==
    /\ UNCHANGED <<routeVars, offlineVars, givenVars, exitCode>>
    /\ pc[i] = "fetch"
    /\ MicrotasksDone
    /\ CASE outcome = "ok" ->
              /\ pc' = [pc EXCEPT ![i] = "text"]
              /\ UNCHANGED <<stats, permits, waiting, released>>
         [] outcome = "blocked" ->
              /\ stats' = Bump(stats, "errors")
              /\ pc' = [pc EXCEPT ![i] = "cooldown"]
              /\ UNCHANGED <<permits, waiting, released>>
         [] OTHER -> Finish(i, Bump(stats, "errors"))
    /\ UNCHANGED <<table, pages, DRY_RUN, run, mainPc, worklist, spawned,
                   updateData, tableAtStart, dbWrites>>

\* lines 259-264: the 5 s pause after a 403/429 is over; return.
CooldownDone_countsAgain(i) ==
    /\ UNCHANGED <<routeVars, offlineVars, givenVars, exitCode>>
    /\ pc[i] = "cooldown"
    /\ MicrotasksDone
    /\ Finish(i, Bump(stats, "errors"))
    /\ UNCHANGED <<table, pages, DRY_RUN, run, mainPc, worklist, spawned,
                   updateData, tableAtStart, dbWrites>>

CooldownDone(i) ==
    /\ UNCHANGED <<routeVars, offlineVars, givenVars, exitCode>>
    /\ pc[i] = "cooldown"
    /\ MicrotasksDone
    /\ Finish(i, stats)
    /\ UNCHANGED <<table, pages, DRY_RUN, run, mainPc, worklist, spawned,
                   updateData, tableAtStart, dbWrites>>

\* lines 267-334: the body is read; not-found check, extraction, the found
\* flags, and either the start of the db.update or the counting.
TextOutcomes == {"ok", "reject"}

TextDone(i, outcome) ==
    /\ UNCHANGED <<routeVars, offlineVars, givenVars, exitCode>>
    /\ pc[i] = "text"
    /\ MicrotasksDone
    /\ LET html == pages[i]
           item == artworkItem(i)
           metadata == extractMetadata(html, i)
           found == \/ foundImage(metadata, item)
                    \/ foundDescription(metadata, item)
                    \/ foundEnhancedData(metadata)
           s1 == IF foundImage(metadata, item)
                 THEN Bump(stats, "newImages") ELSE stats
           s2 == IF foundDescription(metadata, item)
                 THEN Bump(s1, "newDescriptions") ELSE s1
           upd == buildUpdateData(metadata, item)
       IN CASE outcome = "reject" ->
                 /\ Finish(i, Bump(stats, "errors"))
                 /\ UNCHANGED <<updateData, dbWrites>>
            [] outcome = "ok" /\ isNotFound(html) ->
                 /\ Finish(i, Bump(stats, "skipped"))
                 /\ UNCHANGED <<updateData, dbWrites>>
            [] outcome = "ok" /\ ~isNotFound(html) /\ ~found ->
                 /\ stats' = Bump(stats, "skipped")
                 /\ pc' = [pc EXCEPT ![i] = "jitter"]
                 /\ UNCHANGED <<permits, waiting, updateData, dbWrites, released>>
            [] outcome = "ok" /\ ~isNotFound(html) /\ found
                 /\ writesUpdate(DRY_RUN, upd) ->
                 /\ stats' = s2
                 /\ updateData' = [updateData EXCEPT ![i] = upd]
                 /\ dbWrites' = dbWrites + 1
                 /\ pc' = [pc EXCEPT ![i] = "update"]
                 /\ UNCHANGED <<permits, waiting, released>>
            [] OTHER ->
                 /\ stats' = Bump(s2, "updated")
                 /\ pc' = [pc EXCEPT ![i] = "jitter"]
                 /\ UNCHANGED <<permits, waiting, updateData, dbWrites, released>>
    /\ UNCHANGED <<table, pages, DRY_RUN, run, mainPc, worklist, spawned,
                   tableAtStart>>

\* lines 323-330 and 340-345: the db.update settles.
UpdateOutcomes == {"ok", "reject"}

\* the same with updated++ placed before the await of db.update
UpdateDone_countsBeforeWrite(i, outcome) ==
    /\ UNCHANGED <<routeVars, offlineVars, givenVars, exitCode>>
    /\ pc[i] = "update"
    /\ MicrotasksDone
    /\ updateData' = [updateData EXCEPT ![i] = NoUpdate]
    /\ IF outcome = "ok"
       THEN /\ table' = applyUpdate(table, i, updateData[i])
            /\ stats' = Bump(stats, "updated")
            /\ pc' = [pc EXCEPT ![i] = "jitter"]
            /\ UNCHANGED <<permits, waiting, released>>
       ELSE /\ Finish(i, Bump(Bump(stats, "updated"), "errors"))
            /\ UNCHANGED table
    /\ UNCHANGED <<pages, DRY_RUN, run, mainPc, worklist, spawned,
                   tableAtStart, dbWrites>>

UpdateDone(i, outcome) ==
    /\ UNCHANGED <<routeVars, offlineVars, givenVars, exitCode>>
    /\ pc[i] = "update"
    /\ MicrotasksDone
    /\ updateData' = [updateData EXCEPT ![i] = NoUpdate]
    /\ IF outcome = "ok"
       THEN /\ table' = applyUpdate(table, i, updateData[i])
            /\ stats' = Bump(stats, "updated")
            /\ pc' = [pc EXCEPT ![i] = "jitter"]
            /\ UNCHANGED <<permits, waiting, released>>
       ELSE /\ Finish(i, Bump(stats, "errors"))
            /\ UNCHANGED table
    /\ UNCHANGED <<pages, DRY_RUN, run, mainPc, worklist, spawned,
                   tableAtStart, dbWrites>>

\* lines 336-345: the DELAY + jitter pause is over; finally.
JitterDone(i) ==
    /\ UNCHANGED <<routeVars, offlineVars, givenVars, exitCode>>
    /\ pc[i] = "jitter"
    /\ MicrotasksDone
    /\ Finish(i, stats)
    /\ UNCHANGED <<table, pages, DRY_RUN, run, mainPc, worklist, spawned,
                   updateData, tableAtStart, dbWrites>>

\* lines 431-452: Promise.all resolves, the final summary is printed.
Summary ==
    /\ UNCHANGED <<routeVars, offlineVars, givenVars, released>>
    /\ mainPc = "await"
    /\ \A i \in WorkItems : pc[i] = "done"
    /\ mainPc' = "done"
    /\ exitCode' = "0"
    /\ UNCHANGED <<table, pages, DRY_RUN, run, worklist, spawned, pc, permits,
                   waiting, stats, updateData, tableAtStart, dbWrites>>

\* The operator starts the script again over the same table and the same
\* pages, after a run whose summary reported no errors.
NextRun ==
    /\ UNCHANGED <<routeVars, offlineVars, givenVars, released>>
    /\ exitCode' = "none"
    /\ mainPc = "done"
    /\ run < MaxRuns
    /\ stats.errors = 0
    /\ run' = run + 1
    /\ mainPc' = "start"
    /\ UNCHANGED <<table, pages, DRY_RUN, worklist, spawned, pc, permits,
                   waiting, stats, updateData, tableAtStart, dbWrites>>

\* The steps of one run of the script.
RunNext ==
    \/ Startup
    \/ Select
    \/ Spawn
    \/ AwaitAll
    \/ \E i \in Items : StartFetch(i)
    \/ \E i \in Items, o \in FetchOutcomes : FetchDone(i, o)
    \/ \E i \in Items : CooldownDone(i)
    \/ \E i \in Items, o \in TextOutcomes : TextDone(i, o)
    \/ \E i \in Items, o \in UpdateOutcomes : UpdateDone(i, o)
    \/ \E i \in Items : JitterDone(i)
    \/ Summary

HarvestNext ==
    \/ RunNext
    \/ NextRun

Next == HarvestNext

Init == HarvestInit /\ METIdle /\ SemIdle /\ GenIdle /\ ExtractIdle /\ VaultIdle

Spec == Init /\ [][Next]_vars

\* One run of the script, in which every pending timer, fetch, body read
\* and database call settles, and the event loop runs every continuation
\* that is ready.  Whether the operator starts the script again is not a
\* matter of scheduling.
FairSpec == Init /\ [][RunNext]_vars /\ WF_vars(RunNext)

\* No harvester is running.
HarvestIdle ==
    /\ table = [i \in Items |-> Row(NULL, NULL, NULL, NULL)]
    /\ pages = [i \in Items |-> Page(TRUE, NULL, NULL, NULL, NULL)]
    /\ DRY_RUN = FALSE
    /\ DATABASE_URL = TRUE
    /\ LIMIT = NoLimit
    /\ exitCode = "none"
    /\ released = [i \in Items |-> 0]
    /\ fate = NoFate
    /\ dryStats = ZeroStats
    /\ run = 1
    /\ mainPc = "start"
    /\ worklist = <<>>
    /\ spawned = 0
    /\ pc = [i \in Items |-> "idle"]
    /\ permits = CONCURRENCY
    /\ waiting = <<>>
    /\ stats = ZeroStats
    /\ updateData = [i \in Items |-> NoUpdate]
    /\ tableAtStart = table
    /\ dbWrites = 0

\* The search route alone: concurrent requests through searchMET.
NextMET == METNext

InitMET == HarvestIdle /\ METIdle /\ SemIdle /\ GenIdle /\ ExtractIdle /\ VaultIdle

SpecMET == InitMET /\ [][NextMET]_vars

(***************************************************************************)
(* A --dry-run run followed by a run without the flag over the same table  *)
(* and the same outcomes of every fetch, body read and update.             *)
(***************************************************************************)
Fate(f, t, u) == [fetch |-> f, text |-> t, update |-> u]

\* A row and its page (an index in Scenarios) with what the item's calls do.
DryCases ==
    << [scenario |-> 1, fate |-> Fate("ok", "ok", "ok")],
       [scenario |-> 1, fate |-> Fate("ok", "ok", "reject")],
       [scenario |-> 1, fate |-> Fate("ok", "reject", "ok")],
       [scenario |-> 1, fate |-> Fate("blocked", "ok", "ok")],
       [scenario |-> 2, fate |-> Fate("ok", "ok", "ok")],
       [scenario |-> 2, fate |-> Fate("httperr", "ok", "ok")],
       [scenario |-> 3, fate |-> Fate("ok", "ok", "ok")],
       [scenario |-> 4, fate |-> Fate("ok", "ok", "ok")] >>

InitDry ==
    /\ \E c \in [Items -> DOMAIN DryCases] :
          /\ \A i, j \in Items : i < j => c[i] <= c[j]
          /\ table = [i \in Items |-> Scenarios[DryCases[c[i]].scenario].row]
          /\ pages = [i \in Items |-> Scenarios[DryCases[c[i]].scenario].page]
          /\ fate = [i \in Items |-> DryCases[c[i]].fate]
    /\ DRY_RUN = TRUE
    /\ DATABASE_URL = TRUE
    /\ LIMIT = NoLimit
    /\ exitCode = "none"
    /\ released = [i \in Items |-> 0]
    /\ dryStats = ZeroStats
    /\ run = 1
    /\ mainPc = "start"
    /\ worklist = <<>>
    /\ spawned = 0
    /\ pc = [i \in Items |-> "idle"]
    /\ permits = CONCURRENCY
    /\ waiting = <<>>
    /\ stats = ZeroStats
    /\ updateData = [i \in Items |-> NoUpdate]
    /\ tableAtStart = table
    /\ dbWrites = 0
    /\ METIdle
    /\ SemIdle
    /\ GenIdle /\ ExtractIdle /\ VaultIdle

\* The operator runs the script again, now without --dry-run.
RunForReal ==
    /\ UNCHANGED <<routeVars, offlineVars, DATABASE_URL, LIMIT, fate, released>>
    /\ mainPc = "done"
    /\ DRY_RUN
    /\ DRY_RUN' = FALSE
    /\ dryStats' = stats
    /\ run' = run + 1
    /\ mainPc' = "start"
    /\ exitCode' = "none"
    /\ UNCHANGED <<table, pages, worklist, spawned, pc, permits, waiting,
                   stats, updateData, tableAtStart, dbWrites>>

NextDry ==
    \/ Startup
    \/ Select
    \/ Spawn
    \/ AwaitAll
    \/ \E i \in Items : StartFetch(i)
    \/ \E i \in Items : FetchDone(i, fate[i].fetch)
    \/ \E i \in Items : CooldownDone(i)
    \/ \E i \in Items : TextDone(i, fate[i].text)
    \/ \E i \in Items : UpdateDone(i, fate[i].update)
    \/ \E i \in Items : JitterDone(i)
    \/ Summary
    \/ RunForReal

SpecDry == InitDry /\ [][NextDry]_vars

(***************************************************************************)
(* POST /semantic-search: the handler.                                      *)
(***************************************************************************)
InitSem ==
    /\ HarvestIdle
    /\ METIdle
    /\ GenIdle /\ ExtractIdle /\ VaultIdle
    /\ \E e \in EmbeddedSets :
          embedding = [i \in StoreIds |-> IF i \in e THEN VectorOf(i) ELSE NoVector]
    /\ storedDims \in {STORED_DIMENSIONS, QUERY_DIMENSIONS}
    /\ semPc = "idle"
    /\ body = NoBody
    /\ processedQuery = ""
    /\ queryEmbedding = NoVector
    /\ responses = <<>>

\* res.status(...).json(...): the request is answered and the handler ends.
\* lines 353-367, the handler's catch block: an error whose message includes
\* 'OpenAI embedding failed' (thrown at line 280 for a non-OK response) is
\* answered 503, every other error 500.
catchStatus_anyEmbeddingError(failure) ==
    IF failure \in {"not_ok", "fetch", "json"} THEN 503 ELSE 500

catchStatus(failure) == IF failure = "not_ok" THEN 503 ELSE 500

\* at is the handler's position when it answers ("idle": on receipt, before
\* any call was started); failure is what made the handler answer, "none"
\* for the result list.
respond(status, text, artworks, generationFailed, failure) ==
    /\ responses' = Append(responses,
          [status |-> status, query |-> text, artworks |-> artworks,
           total |-> Len(artworks), body |-> body',
           queryEmbedding |-> queryEmbedding',
           generationFailed |-> generationFailed,
           at |-> semPc, failure |-> failure])
    /\ semPc' = "idle"

\* lines 230-243: a request arrives; validation, then the query-processing
\* call is started.  A behaviour is a request and its repetition by the
\* client.
Receive(b) ==
    /\ UNCHANGED <<harvestVars, metVars, offlineVars>>
    /\ semPc = "idle"
    /\ Len(responses) < 2
    /\ Len(responses) > 0 => b = body
    /\ body' = b
    /\ processedQuery' = ""
    /\ queryEmbedding' = NoVector
    /\ IF invalidQuery(b.query)
       THEN respond(400, "", <<>>, FALSE, "query")
       ELSE /\ semPc' = "generate"
            /\ UNCHANGED responses
    /\ UNCHANGED <<embedding, storedDims>>

\* lines 243-277 and 353-368: generateText settles.  A failure is caught by
\* the handler's only catch block.
GenerateDone(ok, text) ==
    /\ UNCHANGED <<harvestVars, metVars, offlineVars>>
    /\ UNCHANGED <<embedding, storedDims, body, queryEmbedding>>
    /\ semPc = "generate"
    /\ IF ok
       THEN /\ processedQuery' = trim(text)
            /\ semPc' = "embed"
            /\ UNCHANGED responses
       ELSE /\ processedQuery' = processedQuery
            /\ respond(catchStatus("generateText"), "", <<>>, TRUE,
                       "generateText")

\* lines 266-283: the embeddings request settles: an OK response, a non-OK
\* response (503), or a rejected fetch (500).
EmbedOutcomes == {"ok", "not_ok", "reject"}

EmbedDone(outcome) ==
    /\ UNCHANGED <<harvestVars, metVars, offlineVars>>
    /\ UNCHANGED <<embedding, storedDims, body, processedQuery, queryEmbedding>>
    /\ semPc = "embed"
    /\ CASE outcome = "ok" -> semPc' = "json" /\ UNCHANGED responses
         [] outcome = "not_ok" ->
              respond(catchStatus("not_ok"), "", <<>>, FALSE, "not_ok")
         [] OTHER -> respond(catchStatus("fetch"), "", <<>>, FALSE, "fetch")

\* lines 283-293: the response body is parsed; the provider returned a
\* vector of the requested dimensions, or a body without one.
JsonDone(ok, v) ==
    /\ UNCHANGED <<harvestVars, metVars, offlineVars>>
    /\ UNCHANGED <<embedding, storedDims, body, processedQuery>>
    /\ semPc = "json"
    /\ IF ok
       THEN /\ queryEmbedding' = v
            /\ semPc' = "rank"
            /\ UNCHANGED responses
       ELSE /\ queryEmbedding' = queryEmbedding
            /\ respond(catchStatus("json"), "", <<>>, FALSE, "json")

\* lines 293-351: the database answers.  The distance operator raises an
\* error on vectors of different dimensions; the query can also fail for
\* reasons of its own.
RankDone(ok, order) ==
    /\ UNCHANGED <<harvestVars, metVars, offlineVars>>
    /\ UNCHANGED <<embedding, storedDims, body, processedQuery, queryEmbedding>>
    /\ semPc = "rank"
    /\ IF ok /\ (Embedded = {} \/ storedDims = QUERY_DIMENSIONS)
       THEN respond(200, processedQuery,
                    similarArtworks(queryEmbedding, requestedLimit(body), order),
                    FALSE, "none")
       ELSE respond(catchStatus("database"), "", <<>>, FALSE, "database")

NextSem ==
    \/ \E b \in Bodies : Receive(b)
    \/ \E ok \in BOOLEAN, t \in GeneratedTexts : GenerateDone(ok, t)
    \/ \E o \in EmbedOutcomes : EmbedDone(o)
    \/ \E ok \in BOOLEAN, v \in QueryVectors : JsonDone(ok, v)
    \/ \E ok \in BOOLEAN, o \in ScanOrders : RankDone(ok, o)

SpecSem == InitSem /\ [][NextSem]_vars

(***************************************************************************)
(* The embedding batch generator: a run, its interruption and its restart. *)
(***************************************************************************)
InitGen ==
    /\ HarvestIdle
    /\ METIdle
    /\ SemIdle
    /\ ExtractIdle
    /\ VaultIdle
    /\ \E s \in SUBSET Items : \E e \in SUBSET s :
          genTable = [i \in Items |-> GenRow(i \in s, i \in e)]
    /\ providerUp \in [Items -> BOOLEAN]
    /\ genPc = "select"
    /\ genRun = 1
    /\ genWorklist = <<>>
    /\ genNext = 1
    /\ attempt = 0
    /\ repeatedCalls = 0
    /\ genTableAtStart = genTable
    /\ calls = [r \in 1..2 |-> [i \in Items |-> 0]]

\* The run selects its worklist.
GenSelect ==
    /\ UNCHANGED <<harvestVars, routeVars, extractVars, vaultVars>>
    /\ genPc = "select"
    /\ genWorklist' = GenSelectFrom(genTable, 1)
    /\ genNext' = 1
    /\ attempt' = 0
    /\ repeatedCalls' = 0
    /\ genPc' = "request"
    /\ UNCHANGED <<genTable, providerUp, genRun, genTableAtStart, calls>>

\* One call of the provider for the current row.  On success embedding (and
\* processed_at) is written; on failure the call is repeated until the
\* attempts are used up, then the row is left without an embedding.
GenRequest ==
    /\ UNCHANGED <<harvestVars, routeVars, extractVars, vaultVars>>
    /\ genPc = "request"
    /\ genNext <= Len(genWorklist)
    /\ LET i == genWorklist[genNext]
       IN /\ repeatedCalls' = IF genTable[i].embedding
                              THEN repeatedCalls + 1 ELSE repeatedCalls
          /\ calls' = [calls EXCEPT ![genRun][i] = @ + 1]
          /\ IF providerUp[i]
             THEN /\ genTable' = [genTable EXCEPT ![i] = writeEmbedding(@)]
                  /\ genNext' = genNext + 1
                  /\ attempt' = 0
             ELSE IF ~exhausted(attempt + 1)
             THEN /\ attempt' = attempt + 1
                  /\ UNCHANGED <<genTable, genNext>>
             ELSE /\ genNext' = genNext + 1
                  /\ attempt' = 0
                  /\ UNCHANGED genTable
    /\ UNCHANGED <<providerUp, genPc, genRun, genWorklist, genTableAtStart>>

\* The worklist is exhausted: the run reports and ends.
GenFinish ==
    /\ UNCHANGED <<harvestVars, routeVars, extractVars, vaultVars>>
    /\ genPc = "request"
    /\ genNext > Len(genWorklist)
    /\ genPc' = "done"
    /\ UNCHANGED <<genTable, providerUp, genRun, genWorklist, genNext, attempt,
                   repeatedCalls, genTableAtStart, calls>>

\* The first run is stopped between two rows.
GenStop ==
    /\ UNCHANGED <<harvestVars, routeVars, extractVars, vaultVars>>
    /\ genPc = "request"
    /\ genRun = 1
    /\ attempt = 0
    /\ genPc' = "stopped"
    /\ UNCHANGED <<genTable, providerUp, genRun, genWorklist, genNext, attempt,
                   repeatedCalls, genTableAtStart, calls>>

\* The generator is started again after the stop.
GenRestart ==
    /\ UNCHANGED <<harvestVars, routeVars, extractVars, vaultVars>>
    /\ genPc = "stopped"
    /\ genRun' = 2
    /\ genPc' = "select"
    /\ UNCHANGED <<genTable, providerUp, genWorklist, genNext, attempt,
                   repeatedCalls, genTableAtStart, calls>>

NextGen ==
    \/ GenSelect
    \/ GenRequest
    \/ GenFinish
    \/ GenStop
    \/ GenRestart

SpecGen == InitGen /\ [][NextGen]_vars

(***************************************************************************)
(* Properties of the harvester.                                            *)
(***************************************************************************)
\* Tasks that have returned from acquire() and not yet called release().
Holders == {i \in Items : pc[i] \in {"acquired", "fetch", "cooldown", "text",
                                      "update", "jitter"}}

InFlight == {i \in Items : pc[i] = "fetch"}

\* C1: the number of processArtwork tasks that have returned from acquire()
\* and not yet called release(), and so the number of fetches in flight,
\* never exceeds CONCURRENCY.
C1_AtMostNInFlight ==
    /\ Cardinality(Holders) <= CONCURRENCY
    /\ Cardinality(InFlight) <= CONCURRENCY

\* A waiter has been handed a permit by a release() and the limit is reached.
C1_Witness ==
    /\ Len(worklist) > CONCURRENCY
    /\ \E i \in Items : pc[i] = "done"
    /\ waiting = <<>>
    /\ Cardinality(Holders) = CONCURRENCY
    /\ InFlight # {}

\* C2: no regression: a column that was non-null when the run selected its
\* worklist holds the same value at every later moment of the run.
C2_NoRegression ==
    \A i \in Items : \A f \in Fields :
        tableAtStart[i][f] # NULL => table[i][f] = tableAtStart[i][f]

\* C3: idempotence: a run that follows an error-free run over the same table
\* and the same pages reports updated = 0 and issues no database write.
C3_SecondRunUpdatesNothing ==
    (mainPc = "done" /\ run >= 2 /\ ~DRY_RUN) =>
        (stats.updated = 0 /\ dbWrites = 0)

\* C4: every run terminates: main is never left for ever with its tasks
\* started and Promise.all pending, and when the summary is printed no task
\* waits in acquire(), every item of the worklist is done and has been
\* counted once, whatever the outcomes of the fetches, body reads and
\* database calls.
C4_RunTerminates ==
    /\ []<>(mainPc \notin {"map", "await"})
    /\ [](mainPc = "done" =>
            /\ waiting = <<>>
            /\ \A i \in WorkItems : pc[i] = "done"
            /\ stats.processed = Len(worklist)
            /\ stats.updated + stats.skipped + stats.errors = Len(worklist))

\* A finished run in which tasks had to queue and every kind of outcome
\* occurred.
C4_Witness ==
    /\ mainPc = "done"
    /\ Len(worklist) > CONCURRENCY
    /\ stats.errors > 0
    /\ stats.skipped > 0
    /\ stats.updated > 0
    /\ stats.processed = Len(worklist)

(***************************************************************************)
(* Properties of searchMET's rate limiter.                                 *)
(***************************************************************************)
\* C5: any two calls to the MET search endpoint are started at least
\* MET_API_DELAY apart, whatever the number of concurrent callers.
C5_CallsSpacedApart ==
    \A k \in 1..(Len(callStarts) - 1) :
        callStarts[k + 1] - callStarts[k] >= MET_API_DELAY

(***************************************************************************)
(* Properties of POST /semantic-search.                                    *)
(***************************************************************************)
Answered == {responses[k] : k \in 1..Len(responses)}

Found == {r \in Answered : r.status = 200}

C7_SameRanking ==
    /\ \A r1, r2 \in Found :
          r1.queryEmbedding = r2.queryEmbedding => r1.artworks = r2.artworks
    /\ \A r \in Found : \A k \in 1..(Len(r.artworks) - 1) :
          SameScore(r.artworks[k].similarity, r.artworks[k + 1].similarity)
              => r.artworks[k].object_id < r.artworks[k + 1].object_id

\* C8: every returned similarity lies between 0 and 1.
C8_SimilarityInUnitInterval ==
    \A r \in Found : \A k \in 1..Len(r.artworks) :
        /\ 0 <= r.artworks[k].similarity.num
        /\ r.artworks[k].similarity.num <= r.artworks[k].similarity.den

\* C9: when the text-generation call fails, the search is still answered
\* with a result list, computed from the raw query of the request.
C9_FallbackToRawQuery ==
    \A r \in Answered :
        r.generationFailed => (r.status = 200 /\ r.query = r.body.query.text)

\* C10: whenever the ranker compares the query vector with stored vectors,
\* the query was embedded with the dimensions of the stored vectors.
C10_SameDimensions ==
    (semPc = "rank" /\ Embedded # {}) => storedDims = QUERY_DIMENSIONS

(***************************************************************************)
(* Properties of the embedding batch generator.                            *)
(***************************************************************************)
GenEmbedded(tbl) == {i \in Items : tbl[i].embedding}

\* What one uninterrupted run leaves embedded: the rows that were embedded
\* before, and the rows with a summary whose provider request succeeds.
GenOnePass ==
    {i \in Items : \/ genTableAtStart[i].embedding
                   \/ genTableAtStart[i].embedding_summary /\ providerUp[i]}

\* C11: a run that ends, whether it is the first run or the restart after a
\* stop behind any prefix of the worklist, leaves the same rows embedded; and
\* a run never calls the provider for a row that already has its embedding.
C11_Resumable ==
    /\ genPc = "done" => GenEmbedded(genTable) = GenOnePass
    /\ repeatedCalls = 0

\* The restart has ended after a first run that was stopped behind a row it
\* had embedded and before a row it had not reached.
C11_Witness ==
    /\ genPc = "done"
    /\ genRun = 2
    /\ genWorklist # <<>>
    /\ \E i \in Items : genTable[i].embedding /\ ~genTableAtStart[i].embedding
                        /\ \A k \in 1..Len(genWorklist) : genWorklist[k] # i

(***************************************************************************)
(* Properties of --dry-run.                                                *)
(***************************************************************************)
SameCounters(a, b) ==
    /\ a.processed = b.processed
    /\ a.updated = b.updated
    /\ a.skipped = b.skipped
    /\ a.errors = b.errors

\* the run without --dry-run that followed the dry run has ended
RealRunDone == mainPc = "done" /\ ~DRY_RUN /\ run = 2

ChangedRows == {i \in Items : table[i] # tableAtStart[i]}

\* C13: counting rule: a finished run without --dry-run counts as updated
\* only items of which at least one stored field changed value, so updated
\* is at most the number of rows the run changed; an item fetched with
\* success whose row is left unchanged is counted as skipped.
C13_UpdatedOnlyIfRowChanged ==
    (mainPc = "done" /\ ~DRY_RUN) =>
        stats.updated <= Cardinality(ChangedRows)


\* C14: blocked response: the step in which a fetch returns 403 or 429
\* counts one error and changes no row, the task keeps its permit during
\* the cooldown, the step that ends the cooldown releases the permit once
\* and counts nothing, and from then on the task stays done for the rest of
\* the run, so the item is neither fetched again nor written.
C14_BlockedCountedOnce ==
    [][\A i \in Items :
          /\ (pc[i] = "fetch" /\ pc'[i] = "cooldown") =>
                /\ stats' = Bump(stats, "errors")
                /\ table' = table
                /\ permits' = permits /\ waiting' = waiting
                /\ released'[i] = 0
          /\ (pc[i] = "cooldown" /\ pc'[i] = "cooldown") =>
                /\ table'[i] = table[i]
                /\ released'[i] = 0
          /\ (pc[i] = "cooldown" /\ pc'[i] # "cooldown") =>
                /\ pc'[i] = "done"
                /\ stats' = stats
                /\ table' = table
                /\ released'[i] = 1
          /\ (pc[i] = "done" /\ mainPc # "select") =>
                /\ pc'[i] = "done"
                /\ table'[i] = table[i]
    ]_vars

\* A blocked task sleeps with its permit after an earlier blocked task has
\* ended its cooldown and its release() has admitted the task that waited.
C14_Witness ==
    /\ \E i \in Items : pc[i] = "cooldown" /\ released[i] = 0
    /\ \E j \in Items : pc[j] = "done" /\ released[j] = 1
    /\ Len(worklist) > CONCURRENCY
    /\ Cardinality(Holders) = CONCURRENCY
    /\ stats.errors = 2 /\ stats.updated = 0 /\ stats.skipped = 0
    /\ table = tableAtStart

\* C15: run-wide cooldown: while a task that received a 403 or 429 is in its
\* cooldown, no task of the run starts a new fetch.
C15_NoFetchDuringCooldown ==
    [][(\E j \in Items : pc[j] = "cooldown") =>
          \A i \in Items : ~(pc[i] # "fetch" /\ pc'[i] = "fetch")]_vars

\* No row selected, no task started, nothing counted, no row written.
NoWorkDone ==
    /\ worklist = <<>>
    /\ spawned = 0
    /\ \A i \in Items : pc[i] = "idle"
    /\ stats = ZeroStats
    /\ dbWrites = 0
    /\ table = tableAtStart

\* C16: setup failure: without DATABASE_URL the process exits with status 1
\* and at no moment has any work been done; with DATABASE_URL the process
\* never exits with a non-zero status, whatever the per-item failures, and a
\* finished run exits with status 0.
C16_ExitStatus ==
    /\ ~DATABASE_URL =>
          /\ NoWorkDone
          /\ mainPc \in {"start", "exited"}
          /\ mainPc = "exited" <=> exitCode = "1"
          /\ exitCode \in {"none", "1"}
    /\ DATABASE_URL =>
          /\ exitCode \in {"none", "0"}
          /\ mainPc # "exited"
          /\ mainPc = "done" => exitCode = "0"

\* The process has exited with status 1 for lack of DATABASE_URL.
C16_Witness ==
    /\ ~DATABASE_URL
    /\ mainPc = "exited"
    /\ exitCode = "1"
    /\ NoWorkDone

(***************************************************************************)
(* The harvester started with or without --limit N.                        *)
(***************************************************************************)
\* line 29: what process.argv makes of LIMIT: no flag, or parseInt of the
\* argument that follows it.
LimitFlags == {NoLimit} \cup {LimitOf(n) : n \in 0..(NumItems - 1)}

InitLimit ==
    /\ \E sc \in [Items -> DOMAIN Scenarios] :
          /\ \A i, j \in Items : i < j => sc[i] <= sc[j]
          /\ table = [i \in Items |-> Scenarios[sc[i]].row]
          /\ pages = [i \in Items |-> Scenarios[sc[i]].page]
    /\ DRY_RUN = FALSE
    /\ DATABASE_URL = TRUE
    /\ LIMIT \in LimitFlags
    /\ exitCode = "none"
    /\ released = [i \in Items |-> 0]
    /\ fate = NoFate
    /\ dryStats = ZeroStats
    /\ run = 1
    /\ mainPc = "start"
    /\ worklist = <<>>
    /\ spawned = 0
    /\ pc = [i \in Items |-> "idle"]
    /\ permits = CONCURRENCY
    /\ waiting = <<>>
    /\ stats = ZeroStats
    /\ updateData = [i \in Items |-> NoUpdate]
    /\ tableAtStart = table
    /\ dbWrites = 0
    /\ METIdle /\ SemIdle /\ GenIdle /\ ExtractIdle /\ VaultIdle

SpecLimit == InitLimit /\ [][HarvestNext]_vars

\* C17: worklist cap: with --limit N the run selects and processes at most
\* N items, for N = 0 too; without the flag a finished run has processed
\* the whole selection.
C17_AtMostLimit ==
    /\ LIMIT.given =>
          /\ Len(worklist) <= LIMIT.n
          /\ stats.processed <= LIMIT.n
    /\ (~LIMIT.given /\ mainPc = "done") =>
          stats.processed = Len(artworksToScrape(tableAtStart))

(***************************************************************************)
(* Further properties of the semantic search.                              *)
(***************************************************************************)
\* C18: every artwork of a successful semantic-search response has a stored
\* embedding and a similarity that was computed from it: a row whose
\* embedding is NULL is not returned, with no similarity and with none of 0.
C18_NoUnembeddedResult ==
    \A r \in Found : \A k \in 1..Len(r.artworks) :
        /\ embedding[r.artworks[k].object_id] # NoVector
        /\ r.artworks[k].similarity # NullScore
        /\ r.artworks[k].similarity.den > 0

\* A search over a store in which some rows have no embedding asked for more
\* rows than are embedded and was answered with the embedded rows only.
C18_Witness ==
    \E r \in Found :
        /\ Embedded # {} /\ Embedded # StoreIds
        /\ r.body.hasLimit
        /\ r.body.limit > Cardinality(Embedded)
        /\ MAX_RESULTS > Cardinality(Embedded)
        /\ Len(r.artworks) = Cardinality(Embedded)

(***************************************************************************)
(* The Semaphore class on its own: new Semaphore(CONCURRENCY) used by      *)
(* clients that call acquire(), and release() once for each acquire() that *)
(* has resolved, in any order.                                             *)
(***************************************************************************)
\* how many times a client goes through acquire() and release()
MaxRounds == 2

\* enough clients for two of them to queue
Clients == 1..(CONCURRENCY + 2)

InitSemaphore ==
    /\ table = [i \in Items |-> Row(NULL, NULL, NULL, NULL)]
    /\ pages = [i \in Items |-> Page(TRUE, NULL, NULL, NULL, NULL)]
    /\ DRY_RUN = FALSE
    /\ DATABASE_URL = TRUE
    /\ LIMIT = NoLimit
    /\ exitCode = "none"
    /\ released = [c \in Clients |-> 0]
    /\ fate = NoFate
    /\ dryStats = ZeroStats
    /\ run = 1
    /\ mainPc = "start"
    /\ worklist = <<>>
    /\ spawned = 0
    /\ pc = [c \in Clients |-> "idle"]
    /\ permits = CONCURRENCY
    /\ waiting = <<>>
    /\ stats = ZeroStats
    /\ updateData = [i \in Items |-> NoUpdate]
    /\ tableAtStart = table
    /\ dbWrites = 0
    /\ METIdle /\ SemIdle /\ GenIdle /\ ExtractIdle /\ VaultIdle

\* await semaphore.acquire(): the client holds a permit when the promise is
\* resolved at once, otherwise it waits in the queue.
CallAcquire(c) ==
    /\ UNCHANGED <<routeVars, offlineVars, givenVars, exitCode, released>>
    /\ pc[c] = "idle"
    /\ released[c] < MaxRounds
    /\ LET a == acquire(permits, waiting, c)
       IN /\ permits' = a.permits
          /\ waiting' = a.waiting
          /\ pc' = [pc EXCEPT ![c] = IF a.resolved THEN "acquired" ELSE "waiting"]
    /\ UNCHANGED <<table, pages, DRY_RUN, run, mainPc, worklist, spawned,
                   stats, updateData, tableAtStart, dbWrites>>

\* semaphore.release() by a client whose acquire() has resolved.
CallRelease(c) ==
    /\ UNCHANGED <<routeVars, offlineVars, givenVars, exitCode>>
    /\ pc[c] = "acquired"
    /\ LET r == release(permits, waiting)
       IN /\ permits' = r.permits
          /\ waiting' = r.waiting
          /\ pc' = [d \in Clients |->
                      IF d = c THEN "idle"
                      ELSE IF d \in r.woken THEN "acquired" ELSE pc[d]]
    /\ released' = [released EXCEPT ![c] = @ + 1]
    /\ UNCHANGED <<table, pages, DRY_RUN, run, mainPc, worklist, spawned,
                   stats, updateData, tableAtStart, dbWrites>>

NextSemaphore ==
    \/ \E c \in Clients : CallAcquire(c)
    \/ \E c \in Clients : CallRelease(c)

SpecSemaphore == InitSemaphore /\ [][NextSemaphore]_vars

\* Clients whose acquire() has resolved and that have not called release().
PermitHolders == {c \in Clients : pc[c] = "acquired"}

\* C19: semaphore invariants: permits is within 0..N, permits plus the
\* number of holders is N, clients wait only while permits is 0, the queue
\* holds the waiting clients and no others, and a release() that finds the
\* queue non-empty admits its head, the client that has waited longest, and
\* nobody else, and leaves permits as it was.
C19_SemaphoreInvariants ==
    /\ [](/\ permits \in 0..CONCURRENCY
          /\ permits + Cardinality(PermitHolders) = CONCURRENCY
          /\ waiting # <<>> => permits = 0
          /\ {waiting[k] : k \in 1..Len(waiting)} =
                {c \in Clients : pc[c] = "waiting"}
          /\ Len(waiting) = Cardinality({c \in Clients : pc[c] = "waiting"}))
    /\ [][\A c \in Clients :
             (pc[c] = "acquired" /\ pc'[c] = "idle" /\ waiting # <<>>) =>
                /\ pc'[Head(waiting)] = "acquired"
                /\ waiting' = Tail(waiting)
                /\ permits' = permits
                /\ \A d \in Clients \ {c, Head(waiting)} : pc'[d] = pc[d]
       ]_vars

\* Two clients wait, the one at the back after having released a permit that
\* went to a waiter or back to the pool, and every permit is held.
C19_Witness ==
    /\ Len(waiting) >= 2
    /\ permits = 0
    /\ \E c \in Clients : pc[c] = "waiting" /\ released[c] >= 1
    /\ \E h \in PermitHolders : released[h] >= 1

(***************************************************************************)
(* processArtwork and its permit.                                          *)
(***************************************************************************)
\* C20: every processArtwork invocation calls semaphore.release() exactly
\* once, on every exit path: never before its acquire() has resolved, not
\* while it is between acquire() and its return, once when it has returned,
\* and the call is the step in which a task that holds a permit ends.
C20_ReleasedExactlyOnce ==
    /\ [](\A i \in Items :
            /\ released[i] \in {0, 1}
            /\ pc[i] \in {"idle", "waiting"} => released[i] = 0
            /\ i \in Holders => released[i] = 0
            /\ pc[i] = "done" <=> released[i] = 1)
    /\ [][\A i \in Items :
             released'[i] > released[i] =>
                /\ i \in Holders
                /\ pc'[i] = "done"
                /\ released'[i] = released[i] + 1
       ]_vars

\* A finished run over a full worklist in which tasks ended by an error, by
\* a skip and by an update, each having released once.
C20_Witness ==
    /\ mainPc = "done"
    /\ Len(worklist) = NumItems
    /\ \A i \in Items : released[i] = 1
    /\ stats.errors > 0
    /\ stats.skipped > 0
    /\ stats.updated > 0

(***************************************************************************)
(* Admission of fetches, and the path of an item.                          *)
(***************************************************************************)
\* No response, body, update or timer callback of the run has run yet: the
\* event loop is still in the turn in which main() called processArtwork on
\* every entry of the worklist (lines 416-418), so no time has passed since
\* the first acquire() of the run.
FirstTurn ==
    /\ mainPc = "await"
    /\ \A i \in Items : pc[i] \in {"idle", "waiting", "acquired", "fetch"}

\* C21: admission order: a fetch is started by a task that holds a permit,
\* and two fetch starts of a run are at least the minimum interval apart, so
\* in the turn in which main() starts the tasks, with several permits free,
\* at most one fetch is started.
C21_FetchStartsSpacedApart ==
    /\ InFlight \subseteq Holders
    /\ FirstTurn => Cardinality(InFlight) <= 1

\* The steps of item i's task from one position to another.
Moves(i, from, to) == pc[i] = from /\ pc'[i] = to

\* The item's task takes a step.
Moved(i) == pc'[i] # pc[i]

\* The edges of the per-item state machine.  Pending is idle, waiting and
\* acquired; Fetching is fetch and text (the body is part of the response);
\* Blocked is cooldown; Extracted with a write in flight is update; Merged
\* and counted is jitter; done is the end of every path.  The last edge is
\* the start of the next run.
ItemEdges ==
    { <<"idle", "waiting">>, <<"idle", "acquired">>, <<"waiting", "acquired">>,
      <<"acquired", "fetch">>,
      <<"fetch", "text">>, <<"fetch", "cooldown">>, <<"fetch", "done">>,
      <<"cooldown", "done">>,
      <<"text", "done">>, <<"text", "update">>, <<"text", "jitter">>,
      <<"update", "jitter">>,
      <<"jitter", "done">>,
      <<"done", "idle">> }

\* A task whose db.update rejected ends counted as an error.
WriteFailedEdge == <<"update", "done">>

\* What C22 asks of writes: the row of an item changes only in the step in
\* which its db.update resolves; a db.update is issued only in the step that
\* handles the body of an OK response, for a body not classified as
\* not-found, which then ends the task with no extraction; and a task that
\* ends from Fetching or Blocked leaves the row as the run selected it.
WritesOnlyAfterExtraction(i) ==
    /\ table'[i] # table[i] => Moves(i, "update", "jitter")
    /\ Moves(i, "text", "update") => ~pages[i].notFound
    /\ (pc[i] = "text" /\ pages[i].notFound /\ Moved(i)) => pc'[i] = "done"
    /\ (pc[i] \in {"fetch", "cooldown", "text"} /\ pc'[i] = "done") =>
          /\ table'[i] = tableAtStart[i]
          /\ updateData'[i] = NoUpdate

\* C22: per-item state machine: an item moves only along Pending ->
\* Fetching -> Extracted -> Merged or Pending -> Fetching -> NotFound,
\* Blocked or TransportError, and writes come only after extraction.
C22_ItemStateMachine ==
    [][\A i \in Items :
          /\ Moved(i) => <<pc[i], pc'[i]>> \in ItemEdges
          /\ WritesOnlyAfterExtraction(i)
    ]_vars

\* C22 as amended: the same, with one more way to end: from Extracted, when
\* the db.update rejects, to an error that is counted and changes no row.
C22_ItemStateMachineWithFailedWrite ==
    [][\A i \in Items :
          /\ Moved(i) => <<pc[i], pc'[i]>> \in ItemEdges \cup {WriteFailedEdge}
          /\ WritesOnlyAfterExtraction(i)
          /\ Moves(i, "update", "done") =>
                /\ table' = table
                /\ stats' = Bump(stats, "errors")
    ]_vars

\* A finished run in which an item was merged by a write, an item ended
\* after a failed fetch or a not-found page, and an item's write failed.
C22_Witness ==
    /\ mainPc = "done"
    /\ ~DRY_RUN
    /\ stats.updated > 0
    /\ stats.errors > 0
    /\ \E i \in Items : pages[i].notFound /\ pc[i] = "done"
    /\ \E i \in Items : table[i] # tableAtStart[i]
    /\ dbWrites > Cardinality(ChangedRows)

(***************************************************************************)
(* extractMetadata called on a page.                                       *)
(***************************************************************************)
\* Pages that differ in the sources of description and artist, and pages
\* that differ in the sources of date and culture.
InitExtract ==
    /\ HarvestIdle /\ METIdle /\ SemIdle /\ GenIdle /\ VaultIdle
    /\ data = NoData
    /\ \/ \E d \in Candidates, p \in BOOLEAN, ld \in Candidates,
             ln \in Candidates, a \in Candidates :
             pageHtml = Html(d, p, ld, ln, a, NullText, FALSE, NullText)
       \/ \E dt \in Candidates, y \in BOOLEAN, c \in Candidates :
             pageHtml = Html(NullText, FALSE, NullText, NullText, NullText,
                             dt, y, c)

\* const metadata = extractMetadata(html, artworkItem.object_id)
Extract ==
    /\ UNCHANGED <<harvestVars, routeVars, genVars, vaultVars>>
    /\ ~data.returned
    /\ data' = extractMetadataFrom(pageHtml)
    /\ UNCHANGED pageHtml

NextExtract == Extract

SpecExtract == InitExtract /\ [][NextExtract]_vars

\* C23: every non-null description, artist, date and culture of the record
\* extractMetadata returns has passed its field's validator, whichever
\* source it came from, and no field is the empty string.
C23_ExtractedFieldsAreValid ==
    data.returned =>
        /\ data.description # NullText => isValidDescription(data.description)
        /\ \A f \in {"artist", "date", "culture"} :
              data[f] # NullText => isValidMetadata(data[f])
        /\ \A f \in {"description", "artist", "date", "culture"} :
              data[f] # Text(0, "none")

(***************************************************************************)
(* One task for each artwork.                                              *)
(***************************************************************************)
\* C24: within a run each object_id is targeted by at most one task: the
\* worklist names no object_id twice, processArtwork has been called once
\* for each entry that map() has reached and for no other row, and a
\* database write is in flight only for a task that is at its db.update.
C24_OneTaskPerObject ==
    /\ \A k, l \in 1..Len(worklist) :
          worklist[k].object_id = worklist[l].object_id => k = l
    /\ mainPc \in {"map", "await", "done"} =>
          /\ spawned <= Len(worklist)
          /\ {i \in Items : pc[i] # "idle"} =
                {worklist[k].object_id : k \in 1..spawned}
          /\ Cardinality({i \in Items : pc[i] # "idle"}) = spawned
    /\ \A i \in Items : updateData[i] # NoUpdate => pc[i] = "update"

\* Every row was selected; one task has a fetch in flight, another has a
\* database write in flight and a third has ended.
C24_Witness ==
    /\ Len(worklist) = NumItems
    /\ spawned = NumItems
    /\ Cardinality(InFlight) >= 1
    /\ \E i \in Items : pc[i] = "update" /\ updateData[i] # NoUpdate
    /\ \E i \in Items : pc[i] = "done"

(***************************************************************************)
(* Order independence.                                                     *)
(***************************************************************************)
\* How item i is counted when its task runs on its own, from the snapshot
\* the run selected, the item's page and the outcomes of its fetch, body
\* read and update.
CountedAs(i) ==
    LET item == Snapshot(i, tableAtStart[i])
        metadata == extractMetadata(pages[i], i)
        found == \/ foundImage(metadata, item)
                 \/ foundDescription(metadata, item)
                 \/ foundEnhancedData(metadata)
        upd == buildUpdateData(metadata, item)
    IN IF fate[i].fetch # "ok" \/ fate[i].text # "ok" THEN "errors"
       ELSE IF isNotFound(pages[i]) \/ ~found THEN "skipped"
       ELSE IF writesUpdate(DRY_RUN, upd) /\ fate[i].update # "ok" THEN "errors"
       ELSE "updated"

\* The row of item i after its task has run on its own.
RowAfter(i) ==
    LET item == Snapshot(i, tableAtStart[i])
        upd == buildUpdateData(extractMetadata(pages[i], i), item)
    IN IF i \in WorkItems /\ CountedAs(i) = "updated" /\ writesUpdate(DRY_RUN, upd)
       THEN setRow(tableAtStart[i], upd)
       ELSE tableAtStart[i]

\* C25: order independence: with the worklist and the outcome of every
\* fetch, body read and update fixed, a run ends with the same table and the
\* same counters updated, skipped and errors in whatever order its tasks
\* acquire permits and complete: each row is what its own task makes of it
\* and each counter is the number of items counted that way.
C25_OrderIndependent ==
    mainPc = "done" =>
        /\ \A i \in Items : table[i] = RowAfter(i)
        /\ \A k \in {"updated", "skipped", "errors"} :
              stats[k] = Cardinality({i \in WorkItems : CountedAs(i) = k})

\* A run without --dry-run over more items than permits has ended with an
\* update written, and an error or a skip.
C25_Witness ==
    /\ mainPc = "done"
    /\ ~DRY_RUN
    /\ Len(worklist) > CONCURRENCY
    /\ stats.updated > 0
    /\ stats.errors + stats.skipped > 0
    /\ Cardinality(ChangedRows) > 0

\* C26: the artworks of a successful semantic-search response are in
\* non-increasing order of the similarity reported for each: no artwork is
\* followed by one with a larger similarity.
C26_NonIncreasingSimilarity ==
    \A r \in Found : \A k \in 1..(Len(r.artworks) - 1) :
        ~Closer(r.artworks[k + 1].similarity, r.artworks[k].similarity)

\* A response lists artworks of different similarity, and two of equal
\* similarity.
C26_Witness ==
    \E r \in Found :
        /\ Len(r.artworks) >= 3
        /\ \E k \in 1..(Len(r.artworks) - 1) :
              Closer(r.artworks[k].similarity, r.artworks[k + 1].similarity)
        /\ \E k \in 1..(Len(r.artworks) - 1) :
              SameScore(r.artworks[k].similarity, r.artworks[k + 1].similarity)

\* C27: in one run the provider is called at most MAX_RETRIES times for a
\* row; a row all of whose attempts failed keeps a null embedding; the run
\* goes on to the rows after it (a run that ends has called the provider for
\* every row of its worklist); and the next run selects that row again.
C27_BoundedRetries ==
    /\ \A r \in 1..2 : \A i \in Items : calls[r][i] <= MAX_RETRIES
    /\ \A i \in Items :
          (\E r \in 1..2 : calls[r][i] = MAX_RETRIES /\ ~providerUp[i])
              => ~genTable[i].embedding
    /\ genPc = "done" =>
          \A k \in 1..Len(genWorklist) : calls[genRun][genWorklist[k]] >= 1
    /\ (genRun = 2 /\ genPc # "select") =>
          \A i \in Items :
              calls[1][i] = MAX_RETRIES =>
                  \E k \in 1..Len(genWorklist) : genWorklist[k] = i

\* The first run used up its attempts for a row and embedded a row behind
\* it; the restart has selected the failed row again and ended.
C27_Witness ==
    /\ genRun = 2
    /\ genPc = "done"
    /\ \E i, j \in Items :
          /\ i < j
          /\ calls[1][i] = MAX_RETRIES
          /\ calls[1][j] = 1
          /\ genTable[j].embedding
          /\ ~genTable[i].embedding
          /\ calls[2][i] = MAX_RETRIES

\* C28: in every state of the table a row with an embedding has an
\* embedding_summary, and a row has an embedding exactly if it has a
\* processed_at.
C28_EmbeddingColumnsConsistent ==
    \A i \in Items :
        /\ genTable[i].embedding => genTable[i].embedding_summary
        /\ genTable[i].embedding <=> genTable[i].processed_at

\* The generator has written a row that had a summary and no embedding,
\* next to a row without summary and a row it failed to embed.
C28_Witness ==
    /\ \E i \in Items :
          /\ ~genTableAtStart[i].embedding
          /\ genTable[i].embedding
          /\ genTable[i].processed_at
    /\ \E i \in Items : ~genTable[i].embedding_summary
    /\ \E i \in Items :
          /\ calls[genRun][i] = MAX_RETRIES
          /\ ~genTable[i].processed_at

(***************************************************************************)
(* The selection query over tables of any rows.                            *)
(***************************************************************************)
\* the columns the WHERE clause tests with isNull (lines 376-382)
Tracked == {"primary_image", "description", "artist"}

\* the columns updateData can carry (lines 303-319)
Fillable == Fields \ {"primary_image_small"}

\* a row with the tracked columns as given and every other column filled or
\* every other column NULL
AnyRow(img, desc, artist, rest) ==
    [f \in Fields |-> IF f = "primary_image" THEN img
                      ELSE IF f = "description" THEN desc
                      ELSE IF f = "artist" THEN artist
                      ELSE rest]

AnyRows ==
    {AnyRow(img, desc, artist, rest) :
        img \in {NULL, "old"}, desc \in {NULL, "old"},
        artist \in {NULL, "old"}, rest \in {NULL, "old"}}

InitSelect ==
    /\ table \in [Items -> AnyRows]
    /\ pages = [i \in Items |-> Page(TRUE, NULL, NULL, NULL, NULL)]
    /\ DRY_RUN = FALSE
    /\ DATABASE_URL = TRUE
    /\ LIMIT \in LimitFlags
    /\ exitCode = "none"
    /\ released = [i \in Items |-> 0]
    /\ fate = NoFate
    /\ dryStats = ZeroStats
    /\ run = 1
    /\ mainPc = "select"
    /\ worklist = <<>>
    /\ spawned = 0
    /\ pc = [i \in Items |-> "idle"]
    /\ permits = CONCURRENCY
    /\ waiting = <<>>
    /\ stats = ZeroStats
    /\ updateData = [i \in Items |-> NoUpdate]
    /\ tableAtStart = table
    /\ dbWrites = 0
    /\ METIdle /\ SemIdle /\ GenIdle /\ ExtractIdle /\ VaultIdle

NextSelect == Select

SpecSelect == InitSelect /\ [][NextSelect]_vars

\* C29: the rows a run selects are rows with a NULL tracked column, and,
\* unless --limit cuts the selection short, all of them; so a row whose
\* every fillable column is filled is not selected.
C29_SelectsRowsWithNullTrackedField ==
    mainPc = "map" =>
        LET selected == {worklist[k].object_id : k \in 1..Len(worklist)}
            cut == LIMIT.given /\ Len(worklist) >= LIMIT.n
        IN /\ \A i \in selected : \E f \in Tracked : tableAtStart[i][f] = NULL
           /\ ~cut => \A i \in Items :
                         (\E f \in Tracked : tableAtStart[i][f] = NULL)
                             => i \in selected
           /\ \A i \in Items :
                 (\A f \in Fillable : tableAtStart[i][f] # NULL)
                     => i \notin selected

\* A run without --limit has selected a row with one NULL tracked column,
\* next to a row with every fillable column filled and a row with the
\* tracked columns filled and the other columns NULL, neither selected.
C29_Witness ==
    /\ mainPc = "map"
    /\ ~LIMIT.given
    /\ \E i, j, k \in Items :
          /\ \E k1 \in 1..Len(worklist) : worklist[k1].object_id = i
          /\ tableAtStart[i].artist = NULL
          /\ tableAtStart[i].primary_image # NULL
          /\ tableAtStart[i].description # NULL
          /\ \A f \in Fillable : tableAtStart[j][f] # NULL
          /\ \A k1 \in 1..Len(worklist) : worklist[k1].object_id \notin {j, k}
          /\ \A f \in Tracked : tableAtStart[k][f] # NULL
          /\ tableAtStart[k].culture = NULL

(***************************************************************************)
(* A harvester run while the image fetcher (fetch-missing-images.ts) works *)
(* on the same table.                                                      *)
(***************************************************************************)
\* fetch-missing-images.ts, lines 97-108: the fetcher found an image for a
\* row it selected for its missing image and updates the row; small is
\* data.primaryImageSmall || null.
FetchMissingImage(i, small) ==
    /\ UNCHANGED <<routeVars, offlineVars, givenVars, exitCode>>
    /\ mainPc \in {"map", "await"}
    /\ table[i].primary_image = NULL
    /\ table' = applyUpdate(table, i,
                    [NoUpdate EXCEPT !.primary_image = "api",
                                     !.primary_image_small = small])
    /\ UNCHANGED <<pages, DRY_RUN, run, mainPc, worklist, spawned, pc, permits,
                   waiting, stats, updateData, tableAtStart, dbWrites,
                   released>>

InitWriters ==
    /\ \E sc \in [Items -> DOMAIN Scenarios] :
          /\ \A i, j \in Items : i < j => sc[i] <= sc[j]
          /\ table = [i \in Items |-> Scenarios[sc[i]].row]
          /\ pages = [i \in Items |-> Scenarios[sc[i]].page]
    /\ DRY_RUN = FALSE
    /\ DATABASE_URL = TRUE
    /\ LIMIT = NoLimit
    /\ exitCode = "none"
    /\ released = [i \in Items |-> 0]
    /\ fate = NoFate
    /\ dryStats = ZeroStats
    /\ run = 1
    /\ mainPc = "start"
    /\ worklist = <<>>
    /\ spawned = 0
    /\ pc = [i \in Items |-> "idle"]
    /\ permits = CONCURRENCY
    /\ waiting = <<>>
    /\ stats = ZeroStats
    /\ updateData = [i \in Items |-> NoUpdate]
    /\ tableAtStart = table
    /\ dbWrites = 0
    /\ METIdle /\ SemIdle /\ GenIdle /\ ExtractIdle /\ VaultIdle

NextWriters ==
    \/ RunNext
    \/ \E i \in Items, small \in {"api", NULL} : FetchMissingImage(i, small)

SpecWriters == InitWriters /\ [][NextWriters]_vars

\* C30: a db.update of the harvester that succeeds sets primary_image or
\* description of a row only if that column is NULL in the table when the
\* update is applied.
C30_WritesOnlyNullFields ==
    [][\A i \in Items :
          (pc[i] = "update" /\ pc'[i] = "jitter") =>
              \A f \in {"primary_image", "description"} :
                  updateData[i][f] # NULL => table[i][f] = NULL]_vars

\* C31: while a run works and when it has ended, updated + skipped + errors
\* <= processed <= the worklist's length; the three counters together count
\* each item once, at the point where its task has counted it; and at the end
\* of the run processed = updated + skipped + errors = the worklist's length.
C31_CounterPartition ==
    mainPc \in {"await", "done"} =>
        LET outcomes == stats.updated + stats.skipped + stats.errors
            started == {i \in WorkItems : pc[i] \notin {"idle", "waiting", "acquired"}}
            counted == {i \in WorkItems : pc[i] \in {"cooldown", "jitter", "done"}}
        IN /\ outcomes <= stats.processed
           /\ stats.processed <= Len(worklist)
           /\ stats.processed = Cardinality(started)
           /\ outcomes = Cardinality(counted)
           /\ mainPc = "done" =>
                 /\ stats.processed = Len(worklist)
                 /\ outcomes = Len(worklist)

\* A run has ended with an item counted in each of the three counters, one
\* of them an item whose db.update was rejected after useful data was found.
C31_Witness ==
    /\ mainPc = "done"
    /\ ~DRY_RUN
    /\ Len(worklist) >= 3
    /\ stats.updated >= 1
    /\ stats.skipped >= 1
    /\ stats.errors >= 1
    /\ dbWrites > stats.updated

(***************************************************************************)
(* The vault: toggleFavorite calls, each await a step of its own.          *)
(***************************************************************************)
\* router.post('/toggle') calls toggleFavorite(userId, objectId) (line 46 of
\* the route); the call runs up to its first await, the select on artwork.
ToggleStart(c, userId, objectId) ==
    /\ UNCHANGED <<harvestVars, routeVars, genVars, extractVars>>
    /\ toggles[c].pc = "idle"
    /\ c > 1 => toggles[c - 1].pc # "idle"
    /\ toggles' = [toggles EXCEPT ![c] =
                      [@ EXCEPT !.pc = "artwork", !.userId = userId,
                                !.objectId = objectId,
                                !.before = userFavorites]]
    /\ UNCHANGED <<artworkRows, userFavorites>>

\* lines 7-17: the select on artwork resolves; without a row the call throws,
\* else it starts the select on user_favorites.
ArtworkSelected(c) ==
    /\ UNCHANGED <<harvestVars, routeVars, genVars, extractVars>>
    /\ toggles[c].pc = "artwork"
    /\ toggles' = [toggles EXCEPT ![c] =
                      IF @.objectId \notin artworkRows
                      THEN [@ EXCEPT !.pc = "thrown", !.after = userFavorites]
                      ELSE [@ EXCEPT !.pc = "favorite"]]
    /\ UNCHANGED <<artworkRows, userFavorites>>

\* lines 20-31: the select on user_favorites resolves; the call starts the
\* delete when it returned a row, else the insert.
FavoriteSelected(c) ==
    /\ UNCHANGED <<harvestVars, routeVars, genVars, extractVars>>
    /\ toggles[c].pc = "favorite"
    /\ LET existing ==
               userFavorites[<<toggles[c].userId, toggles[c].objectId>>] > 0
       IN toggles' = [toggles EXCEPT ![c] =
                         [@ EXCEPT !.existing = existing,
                                   !.pc = IF existing THEN "delete"
                                          ELSE "insert"]]
    /\ UNCHANGED <<artworkRows, userFavorites>>

\* lines 33-42: the delete of every row of the pair is done; the call
\* returns { isFavorited: false }.
\* the same with a delete that removes one row only
DeleteDone_oneRow(c) ==
    /\ UNCHANGED <<harvestVars, routeVars, genVars, extractVars>>
    /\ toggles[c].pc = "delete"
    /\ userFavorites' =
          [userFavorites EXCEPT
              ![<<toggles[c].userId, toggles[c].objectId>>] = @ - 1]
    /\ toggles' = [toggles EXCEPT ![c] =
                      [@ EXCEPT !.pc = "returned", !.isFavorited = "false",
                                !.after = userFavorites']]
    /\ UNCHANGED artworkRows

DeleteDone(c) ==
    /\ UNCHANGED <<harvestVars, routeVars, genVars, extractVars>>
    /\ toggles[c].pc = "delete"
    /\ userFavorites' =
          [userFavorites EXCEPT ![<<toggles[c].userId, toggles[c].objectId>>] = 0]
    /\ toggles' = [toggles EXCEPT ![c] =
                      [@ EXCEPT !.pc = "returned", !.isFavorited = "false",
                                !.after = userFavorites']]
    /\ UNCHANGED artworkRows

\* lines 43-50: the insert of one row with a fresh id is done; the call
\* returns { isFavorited: true }.
InsertDone(c) ==
    /\ UNCHANGED <<harvestVars, routeVars, genVars, extractVars>>
    /\ toggles[c].pc = "insert"
    /\ userFavorites' =
          [userFavorites EXCEPT
              ![<<toggles[c].userId, toggles[c].objectId>>] = @ + 1]
    /\ toggles' = [toggles EXCEPT ![c] =
                      [@ EXCEPT !.pc = "returned", !.isFavorited = "true",
                                !.after = userFavorites']]
    /\ UNCHANGED artworkRows

ToggleSteps ==
    \/ \E c \in ToggleCalls : ArtworkSelected(c)
    \/ \E c \in ToggleCalls : FavoriteSelected(c)
    \/ \E c \in ToggleCalls : DeleteDone(c)
    \/ \E c \in ToggleCalls : InsertDone(c)

\* Requests to /toggle arrive at any time, from any user for any object_id;
\* the table starts with at most one row for each pair.
InitVault ==
    /\ HarvestIdle /\ METIdle /\ SemIdle /\ GenIdle /\ ExtractIdle
    /\ artworkRows \in SUBSET VaultObjects
    /\ userFavorites \in [Pairs -> 0..1]
    \* artwork_id references artwork.id
    /\ \A p \in Pairs : p[2] \notin artworkRows => userFavorites[p] = 0
    /\ toggles = [c \in ToggleCalls |-> NoToggle]

NextVault ==
    \/ \E c \in ToggleCalls, u \in VaultUsers, o \in VaultObjects :
          ToggleStart(c, u, o)
    \/ ToggleSteps

SpecVault == InitVault /\ [][NextVault]_vars

\* C32: the user_favorites table never holds more than one row for a
\* (user, artwork) pair, whatever the interleaving of toggleFavorite calls.
C32_AtMostOneRowPerPair ==
    \A p \in Pairs : userFavorites[p] <= 1

\* C33: a semantic-search request is answered 400 exactly if its query is
\* missing, empty or not a string, and then on receipt, before any call is
\* started; 503 exactly if the embedding provider's response was not OK; 500
\* exactly for every other failure; and only a 200 answer carries a result
\* list.
C33_ErrorClassification ==
    \A r \in Answered :
        /\ (r.body.query.kind # "string" \/ r.body.query.text = "")
              <=> r.status = 400
        /\ r.status = 400 => r.at = "idle"
        /\ r.failure = "not_ok" <=> r.status = 503
        /\ r.failure \in {"generateText", "fetch", "json", "database"}
              <=> r.status = 500
        /\ r.failure = "none" <=> r.status = 200
        /\ r.status # 200 => (r.artworks = <<>> /\ r.total = 0)

\* A request was answered 503 for a non-OK embedding response, and its
\* repetition 500 for a database error, over a store with embedded rows.
C33_Witness ==
    /\ Embedded # {}
    /\ \E r1, r2 \in Answered :
          /\ r1.status = 503
          /\ r1.at = "embed"
          /\ r2.status = 500
          /\ r2.at = "rank"
          /\ r2.failure = "database"

(***************************************************************************)
(* The vault used by one client that awaits each answer before its next    *)
(* request; the table may hold several rows of a pair, as overlapping      *)
(* calls leave them.                                                       *)
(***************************************************************************)
InitVaultSeq ==
    /\ HarvestIdle /\ METIdle /\ SemIdle /\ GenIdle /\ ExtractIdle
    /\ artworkRows \in SUBSET VaultObjects
    /\ userFavorites \in [Pairs -> 0..MaxRows]
    /\ \A p \in Pairs : p[2] \notin artworkRows => userFavorites[p] = 0
    /\ toggles = [c \in ToggleCalls |-> NoToggle]

\* a call is made when every earlier call has returned or thrown
ToggleStartAlone(c, userId, objectId) ==
    /\ \A d \in ToggleCalls : toggles[d].pc \in {"idle", "returned", "thrown"}
    /\ ToggleStart(c, userId, objectId)

NextVaultSeq ==
    \/ \E c \in ToggleCalls, u \in VaultUsers, o \in VaultObjects :
          ToggleStartAlone(c, u, o)
    \/ ToggleSteps

SpecVaultSeq == InitVaultSeq /\ [][NextVaultSeq]_vars

\* C34: when toggleFavorite calls follow one another, two successive calls
\* of one user for one existing artwork return opposite isFavorited values
\* and leave the set of the user's favorites as it was before the first;
\* isFavorited after a call equals what the call returned; and a call for an
\* object_id without artwork row throws and leaves the table as it was.
C34_ToggleInvolution ==
    \A c \in ToggleCalls :
        LET t == toggles[c]
        IN /\ t.pc = "thrown" =>
                 (t.objectId \notin artworkRows /\ t.after = t.before)
           /\ (t.pc \in {"favorite", "delete", "insert", "returned"})
                 => t.objectId \in artworkRows
           /\ (t.pc = "returned" /\ \A d \in ToggleCalls : d > c => toggles[d].pc = "idle")
                 => (isFavorited(userFavorites, t.userId, t.objectId)
                        <=> t.isFavorited = "true")
           /\ (/\ c < NumToggles
               /\ t.pc = "returned"
               /\ toggles[c + 1].pc = "returned"
               /\ toggles[c + 1].userId = t.userId
               /\ toggles[c + 1].objectId = t.objectId)
                 => /\ toggles[c + 1].isFavorited # t.isFavorited
                    /\ FavoritesOf(toggles[c + 1].after, t.userId)
                          = FavoritesOf(t.before, t.userId)

\* Two successive calls of one user for one artwork, starting from two rows
\* of the pair, returned false and then true, and a third call for an
\* object_id without artwork row has thrown.
C34_Witness ==
    /\ toggles[1].pc = "returned"
    /\ toggles[2].pc = "returned"
    /\ toggles[1].userId = toggles[2].userId
    /\ toggles[1].objectId = toggles[2].objectId
    /\ toggles[1].before[<<toggles[1].userId, toggles[1].objectId>>] = 2
    /\ toggles[1].isFavorited = "false"
    /\ toggles[2].isFavorited = "true"
    /\ toggles[3].pc = "thrown"

============================================================================
